---- MODULE Spec2Model ----
(***************************************************************************)
(* Connection lifecycle of the Petra wallet integration: the wallet        *)
(* context (walletReducer, WalletProvider), the Petra adapter, the         *)
(* validation helpers, the retry manager and the error classifier.         *)
(*                                                                         *)
(* Strings are TLA+ strings; Len, \o and SubSeq act on them character by   *)
(* character, so substring tests, lower-casing and the regular             *)
(* expressions of the source are computed, not assumed.                    *)
(***************************************************************************)
EXTENDS Integers, Sequences, FiniteSets, Bags, TLC

(* JavaScript null / undefined for a field that holds a string otherwise. *)
Null == "<null>"

-----------------------------------------------------------------------------
(* String primitives *)

UpperChars == "ABCDEFGHIJKLMNOPQRSTUVWXYZ"
LowerChars == "abcdefghijklmnopqrstuvwxyz"
HexChars == {"0", "1", "2", "3", "4", "5", "6", "7", "8", "9",
             "a", "b", "c", "d", "e", "f", "A", "B", "C", "D", "E", "F"}

CharAt(s, i) == SubSeq(s, i, i)

UpperSet == {CharAt(UpperChars, i) : i \in 1..Len(UpperChars)}
LowerMap ==
  [c \in UpperSet |->
     CharAt(LowerChars, CHOOSE i \in 1..Len(UpperChars) : CharAt(UpperChars, i) = c)]
LowerChar(c) == IF c \in UpperSet THEN LowerMap[c] ELSE c

RECURSIVE toLowerCase(_)
toLowerCase(s) ==
  IF Len(s) = 0 THEN "" ELSE LowerChar(CharAt(s, 1)) \o toLowerCase(SubSeq(s, 2, Len(s)))

includes(s, sub) ==
  \E i \in 1..(Len(s) - Len(sub) + 1) : SubSeq(s, i, i + Len(sub) - 1) = sub

startsWith(s, prefix) ==
  Len(s) >= Len(prefix) /\ SubSeq(s, 1, Len(prefix)) = prefix

IsHexString(s) == \A i \in 1..Len(s) : CharAt(s, i) \in HexChars

(* JavaScript truthiness of an optional string: null, undefined and "" are falsy. *)
Truthy(s) == s # Null /\ s # ""

-----------------------------------------------------------------------------
(* constants.ts *)

SUPPORTED_NETWORKS ==
  << [key |-> "mainnet", name |-> "Aptos Mainnet", chainId |-> "1", supported |-> TRUE],
     [key |-> "testnet", name |-> "Aptos Testnet", chainId |-> "2", supported |-> TRUE],
     [key |-> "devnet",  name |-> "Aptos Devnet",  chainId |-> "3", supported |-> TRUE] >>

STORAGE_KEYS ==
  [ WALLET_CONNECTED       |-> "petra_wallet_connected",
    LAST_CONNECTED_ACCOUNT |-> "petra_last_account",
    PREFERRED_NETWORK      |-> "petra_preferred_network",
    CONNECTION_TIMESTAMP   |-> "petra_connection_timestamp" ]

StorageKeySet ==
  { STORAGE_KEYS.WALLET_CONNECTED, STORAGE_KEYS.LAST_CONNECTED_ACCOUNT,
    STORAGE_KEYS.PREFERRED_NETWORK, STORAGE_KEYS.CONNECTION_TIMESTAMP }

MAX_RECONNECT_ATTEMPTS == 3

AddressMaxHexDigits == 64
PublicKeyHexDigits == 64

(* /^0x[a-fA-F0-9]{1,64}$/ *)
isValidAptosAddress(address) ==
  /\ startsWith(address, "0x")
  /\ Len(address) - 2 >= 1
  /\ Len(address) - 2 <= AddressMaxHexDigits
  /\ IsHexString(SubSeq(address, 3, Len(address)))

(* Index of the first registry entry satisfying the test, 0 for none:    *)
(* Object.values(SUPPORTED_NETWORKS).find(...) over the registry order.   *)
getNetworkByChainId(chainId) ==
  LET Hits == {i \in 1..Len(SUPPORTED_NETWORKS) : SUPPORTED_NETWORKS[i].chainId = chainId}
  IN IF Hits = {} THEN 0 ELSE CHOOSE i \in Hits : \A j \in Hits : i <= j

findNetworkByName(name) ==
  LET Hits == {i \in 1..Len(SUPPORTED_NETWORKS) :
                 toLowerCase(SUPPORTED_NETWORKS[i].name) = toLowerCase(name)}
  IN IF Hits = {} THEN 0 ELSE CHOOSE i \in Hits : \A j \in Hits : i <= j

-----------------------------------------------------------------------------
(* validation.ts *)

isValidPublicKey(publicKey) ==
  LET cleanKey == IF startsWith(publicKey, "0x")
                  THEN SubSeq(publicKey, 3, Len(publicKey)) ELSE publicKey
  IN Len(cleanKey) = PublicKeyHexDigits /\ IsHexString(cleanKey)

isValidNetwork(network) ==
  \/ \E i \in 1..Len(SUPPORTED_NETWORKS) :
       toLowerCase(SUPPORTED_NETWORKS[i].name) = toLowerCase(network)
  \/ \E i \in 1..Len(SUPPORTED_NETWORKS) : SUPPORTED_NETWORKS[i].chainId = network
  \/ \E i \in 1..Len(SUPPORTED_NETWORKS) : SUPPORTED_NETWORKS[i].key = toLowerCase(network)

(* validateConnectionData with the public-key checks ahead of the address *)
(* checks.                                                                *)
validateConnectionDataKeyFirst(data) ==
  IF ~Truthy(data.publicKey)
    THEN [isValid |-> FALSE, error |-> "Public key is required"]
  ELSE IF ~isValidPublicKey(data.publicKey)
    THEN [isValid |-> FALSE, error |-> "Invalid public key format"]
  ELSE IF ~Truthy(data.address)
    THEN [isValid |-> FALSE, error |-> "Wallet address is required"]
  ELSE IF ~isValidAptosAddress(data.address)
    THEN [isValid |-> FALSE, error |-> "Invalid Aptos wallet address format"]
  ELSE IF Truthy(data.network) /\ ~isValidNetwork(data.network)
    THEN [isValid |-> FALSE, error |-> "Unsupported network"]
  ELSE [isValid |-> TRUE, error |-> Null]

(* Returns [isValid, error]; error is Null when valid. *)
validateConnectionData(data) ==
  IF ~Truthy(data.address)
    THEN [isValid |-> FALSE, error |-> "Wallet address is required"]
  ELSE IF ~isValidAptosAddress(data.address)
    THEN [isValid |-> FALSE, error |-> "Invalid Aptos wallet address format"]
  ELSE IF ~Truthy(data.publicKey)
    THEN [isValid |-> FALSE, error |-> "Public key is required"]
  ELSE IF ~isValidPublicKey(data.publicKey)
    THEN [isValid |-> FALSE, error |-> "Invalid public key format"]
  ELSE IF Truthy(data.network) /\ ~isValidNetwork(data.network)
    THEN [isValid |-> FALSE, error |-> "Unsupported network"]
  ELSE [isValid |-> TRUE, error |-> Null]

(* sanitizeWalletAddress without the toLowerCase() call. *)
sanitizeWalletAddressKeepsCase(address) ==
  IF ~Truthy(address) THEN ""
  ELSE IF ~startsWith(address, "0x") THEN "0x" \o address ELSE address

(* sanitizeWalletAddress without the startsWith('0x') test. *)
sanitizeWalletAddressAlwaysPrefixes(address) ==
  IF ~Truthy(address) THEN ""
  ELSE "0x" \o toLowerCase(address)

sanitizeWalletAddress(address) ==
  IF ~Truthy(address) THEN ""
  ELSE LET cleanAddress == toLowerCase(address)
       IN IF ~startsWith(cleanAddress, "0x") THEN "0x" \o cleanAddress ELSE cleanAddress

(* String input only: the adapter passes the string getNetwork returned. *)
validateAndNormalizeNetwork(networkInput) ==
  LET byId == getNetworkByChainId(networkInput)
      byName == findNetworkByName(networkInput)
  IN IF byId # 0
       THEN [isValid |-> TRUE, network |-> SUPPORTED_NETWORKS[byId].name,
             chainId |-> SUPPORTED_NETWORKS[byId].chainId, error |-> Null]
     ELSE IF byName # 0
       THEN [isValid |-> TRUE, network |-> SUPPORTED_NETWORKS[byName].name,
             chainId |-> SUPPORTED_NETWORKS[byName].chainId, error |-> Null]
     ELSE [isValid |-> FALSE, network |-> Null, chainId |-> Null,
           error |-> "Unsupported network: " \o networkInput]

(* A missing error object (undefined / null). *)
NoError == [name |-> Null, message |-> Null]

(* RetryManager(3, 1000) built by the adapter's constructor. *)
maxRetries == 3

shouldRetryErrorNever(error) == FALSE

shouldRetryErrorRejectedOnly(error) ==
  IF error = NoError THEN FALSE
  ELSE LET message == IF error.message = Null THEN "" ELSE toLowerCase(error.message)
       IN IF includes(message, "rejected") \/ includes(message, "user denied")
            THEN FALSE
          ELSE \/ includes(message, "network")
               \/ includes(message, "timeout")
               \/ includes(message, "connection")
               \/ includes(message, "temporary")

shouldRetryErrorRetryWordsFirst(error) ==
  IF error = NoError THEN FALSE
  ELSE LET message == IF error.message = Null THEN "" ELSE toLowerCase(error.message)
       IN IF \/ includes(message, "network")
             \/ includes(message, "timeout")
             \/ includes(message, "connection")
             \/ includes(message, "temporary")
            THEN TRUE
          ELSE FALSE

shouldRetryError(error) ==
  IF error = NoError THEN FALSE
  ELSE LET message == IF error.message = Null THEN "" ELSE toLowerCase(error.message)
       IN IF \/ includes(message, "rejected")
             \/ includes(message, "user denied")
             \/ includes(message, "not installed")
             \/ includes(message, "not found")
            THEN FALSE
          ELSE IF includes(message, "invalid") \/ includes(message, "malformed")
            THEN FALSE
          ELSE IF \/ includes(message, "network")
                  \/ includes(message, "timeout")
                  \/ includes(message, "connection")
                  \/ includes(message, "temporary")
            THEN TRUE
          ELSE FALSE

-----------------------------------------------------------------------------
(* useWallet's networkInfo: the descriptor shown for context.network,     *)
(* found by name, then by chain id, else the unknown-network descriptor.  *)
useWalletNetworkInfo(contextNetwork) ==
  IF ~Truthy(contextNetwork) THEN [name |-> Null, chainId |-> Null, isSupported |-> FALSE]
  ELSE LET byName == findNetworkByName(contextNetwork)
           byId == getNetworkByChainId(contextNetwork)
       IN IF byName # 0
            THEN [name |-> SUPPORTED_NETWORKS[byName].name,
                  chainId |-> SUPPORTED_NETWORKS[byName].chainId,
                  isSupported |-> SUPPORTED_NETWORKS[byName].supported]
          ELSE IF byId # 0
            THEN [name |-> SUPPORTED_NETWORKS[byId].name,
                  chainId |-> SUPPORTED_NETWORKS[byId].chainId,
                  isSupported |-> SUPPORTED_NETWORKS[byId].supported]
          ELSE [name |-> contextNetwork, chainId |-> "unknown", isSupported |-> FALSE]

(* errors.ts: an error object is [name |-> class, message |-> text]. *)

ERROR_MESSAGES ==
  [ WALLET_NOT_INSTALLED |-> "Petra wallet is not installed. Please install it from the Chrome Web Store.",
    CONNECTION_REJECTED  |-> "Wallet connection was rejected. Please try again.",
    NETWORK_UNSUPPORTED  |-> "Please switch to a supported network in your Petra wallet.",
    WALLET_LOCKED        |-> "Please unlock your Petra wallet and try again.",
    UNKNOWN_ERROR        |-> "An unexpected error occurred. Please try again." ]

WalletNotInstalledError ==
  [name |-> "WalletNotInstalledError", message |-> ERROR_MESSAGES.WALLET_NOT_INSTALLED]
ConnectionRejectedError ==
  [name |-> "ConnectionRejectedError", message |-> ERROR_MESSAGES.CONNECTION_REJECTED]
WalletLockedError ==
  [name |-> "WalletLockedError", message |-> ERROR_MESSAGES.WALLET_LOCKED]
UnknownWalletError(message) ==
  [name |-> "UnknownWalletError", message |-> message]
PlainError(message) ==
  [name |-> "Error", message |-> message]

handleWalletErrorRawMessage(error) == error.message

handleWalletError(error) ==
  IF error.name = "WalletNotInstalledError" THEN ERROR_MESSAGES.WALLET_NOT_INSTALLED
  ELSE IF error.name = "ConnectionRejectedError" THEN ERROR_MESSAGES.CONNECTION_REJECTED
  ELSE IF error.name = "NetworkUnsupportedError" THEN ERROR_MESSAGES.NETWORK_UNSUPPORTED
  ELSE IF error.name = "WalletLockedError" THEN ERROR_MESSAGES.WALLET_LOCKED
  ELSE LET message == toLowerCase(error.message)
       IN IF includes(message, "user rejected") \/ includes(message, "rejected")
            THEN ERROR_MESSAGES.CONNECTION_REJECTED
          ELSE IF includes(message, "not installed") \/ includes(message, "not found")
            THEN ERROR_MESSAGES.WALLET_NOT_INSTALLED
          ELSE IF includes(message, "locked")
            THEN ERROR_MESSAGES.WALLET_LOCKED
          ELSE IF includes(message, "network") \/ includes(message, "chain")
            THEN ERROR_MESSAGES.NETWORK_UNSUPPORTED
          ELSE ERROR_MESSAGES.UNKNOWN_ERROR

-----------------------------------------------------------------------------
(* petra-adapter.ts: pure parts *)

connectCatchLockedFirst(error) ==
  IF error.message # Null /\ includes(error.message, "locked")
    THEN WalletLockedError
  ELSE IF error.message # Null /\ includes(error.message, "rejected")
    THEN ConnectionRejectedError
  ELSE IF error.name \in {"WalletNotInstalledError", "ConnectionRejectedError",
                          "WalletLockedError", "UnknownWalletError"}
    THEN error
  ELSE UnknownWalletError("Connection failed: " \o
                          (IF error.message = Null THEN "undefined" ELSE error.message))

(* The catch block of the operation passed to executeWithRetry. The two   *)
(* includes() tests are case-sensitive, as in the source.                  *)
connectCatch(error) ==
  IF error.message # Null /\ (includes(error.message, "User rejected") \/ includes(error.message, "rejected"))
    THEN ConnectionRejectedError
  ELSE IF error.message # Null /\ includes(error.message, "locked")
    THEN WalletLockedError
  ELSE IF error.name = "WalletNotInstalledError"
    THEN error
  ELSE IF error.name \in {"ConnectionRejectedError", "WalletLockedError", "UnknownWalletError"}
    THEN error
  ELSE UnknownWalletError("Connection failed: " \o
                          (IF error.message = Null THEN "undefined" ELSE error.message))

(* networkInfo.name || networkInfo.chainId || 'unknown' *)
getNetwork(networkInfo) ==
  IF Truthy(networkInfo.name) THEN networkInfo.name
  ELSE IF Truthy(networkInfo.chainId) THEN networkInfo.chainId
  ELSE "unknown"

(* Lines 132-158: what one attempt makes of the agent's payload and the   *)
(* network string; ok = FALSE carries the error thrown inside the try.    *)
connectResult(payload, networkInfo) ==
  LET sanitizedAddress == sanitizeWalletAddress(payload.address)
      connectionData == [address |-> sanitizedAddress, publicKey |-> payload.publicKey,
                         network |-> networkInfo]
      validation == validateConnectionData(connectionData)
      networkValidation == validateAndNormalizeNetwork(networkInfo)
  IN IF ~validation.isValid
       THEN [ok |-> FALSE, address |-> Null, network |-> Null,
             error |-> UnknownWalletError("Invalid connection data: " \o validation.error)]
       ELSE [ok |-> TRUE, address |-> sanitizedAddress,
             network |-> IF Truthy(networkValidation.network)
                         THEN networkValidation.network ELSE networkInfo,
             error |-> Null]

(* RetryManager.executeWithRetry, the catch branch of the loop body:      *)
(* "throw" leaves the loop with lastError, "delay" waits and loops.       *)
(* The same branch for a RetryManager built with max attempts. *)
catchOfAttemptIgnoringShouldRetry(max, attempt, shouldRetry) ==
  IF attempt = max THEN "throw" ELSE "delay"

catchOfAttemptGivingUp(max, attempt, shouldRetry) == "throw"

catchOfAttemptOneMore(max, attempt, shouldRetry) ==
  IF attempt > max \/ ~shouldRetry THEN "throw" ELSE "delay"

catchOfAttempt(max, attempt, shouldRetry) ==
  IF attempt = max \/ ~shouldRetry THEN "throw" ELSE "delay"

executeWithRetry(attempt, shouldRetry) == catchOfAttempt(maxRetries, attempt, shouldRetry)

(* this.retryDelay * attempt, the time waited after a failed attempt. *)
delayBeforeRetryFixed(retryDelay, attempt) == retryDelay

delayBeforeRetry(retryDelay, attempt) == retryDelay * attempt

-----------------------------------------------------------------------------
(* wallet-context.tsx: reducer *)

(* Date.now() and Date.now().toString(): the program stores the reading   *)
(* and never reads it back, so one opaque value stands for every reading. *)
DateNow == "<Date.now()>"
DateNowString == "<Date.now().toString()>"

initialState ==
  [ isConnected |-> FALSE, isConnecting |-> FALSE, account |-> Null,
    network |-> Null, error |-> Null, lastConnected |-> Null ]

walletReducer(s, type, payload) ==
  CASE type = "SET_CONNECTING" ->
         [s EXCEPT !.isConnecting = payload, !.error = Null]
    [] type = "SET_CONNECTED" ->
         [s EXCEPT !.isConnected = TRUE, !.isConnecting = FALSE,
                   !.account = payload.account, !.network = payload.network,
                   !.error = Null, !.lastConnected = DateNow]
    [] type = "SET_DISCONNECTED" ->
         [s EXCEPT !.isConnected = FALSE, !.isConnecting = FALSE,
                   !.account = Null, !.network = Null,
                   !.error = Null, !.lastConnected = Null]
    [] type = "SET_ERROR" ->
         [s EXCEPT !.isConnecting = FALSE, !.error = payload]
    [] type = "CLEAR_ERROR" ->
         [s EXCEPT !.error = Null]
    [] type = "SET_NETWORK" ->
         [s EXCEPT !.network = payload]
    [] type = "SET_ACCOUNT" ->
         [s EXCEPT !.account = payload]
    [] OTHER -> s

-----------------------------------------------------------------------------
(* Bounds and the inputs the environment supplies *)

MaxCalls == 2          \* connect() calls that may be in progress at once


ValidPublicKey == "00112233445566778899aabbccddeeff00112233445566778899AABBCCDDEEFF"

(* What the agent's connect() may resolve with. *)
AgentPayloads ==
  { [address |-> "AB12", publicKey |-> ValidPublicKey],
    [address |-> "0xZZ", publicKey |-> ValidPublicKey] }

(* What the agent's connect() may reject with. *)
AgentRejections ==
  { PlainError("User rejected the request") }

(* What the agent's network() may resolve with. *)
AgentNetworks ==
  { [name |-> "",        chainId |-> "2"],
    [name |-> "Mainnet", chainId |-> "1"],
    [name |-> "Solana",  chainId |-> "900"] }

(* Accounts and networks the agent may announce in change notifications. *)
NotifiedAccounts == {"0xEF56", "ef56"}
NotifiedNetworks == { [name |-> "Mainnet", chainId |-> "1"] }

(* A longer series of announcements, for the runs that start connected. *)
ManyNotifiedAccounts == NotifiedAccounts \cup {"0xcd34", "0x9a"}
ManyNotifiedNetworks == NotifiedNetworks \cup { [name |-> "", chainId |-> "3"] }

(* The pure functions above, tabulated once over the values these inputs  *)
(* can produce (an evaluation aid: each table is the function itself).    *)
NetworkInfos == {getNetwork(n) : n \in AgentNetworks} \cup {"unknown"}
connectResultOf ==
  [p \in AgentPayloads |-> [n \in NetworkInfos |-> connectResult(p, n)]]
ThrownErrors ==
  AgentRejections \cup {PlainError("Connection timeout"), WalletNotInstalledError}
    \cup {connectResultOf[x[1]][x[2]].error :
            x \in {y \in AgentPayloads \X NetworkInfos : ~connectResultOf[y[1]][y[2]].ok}}
connectCatchOf == [e \in ThrownErrors |-> connectCatch(e)]
CaughtErrors == {connectCatchOf[e] : e \in ThrownErrors}
shouldRetryErrorOf == [e \in CaughtErrors |-> shouldRetryError(e)]
handleWalletErrorOf == [e \in CaughtErrors |-> handleWalletError(e)]
isValidAptosAddressOf == [a \in ManyNotifiedAccounts |-> isValidAptosAddress(a)]
ShouldRetry(e) == shouldRetryErrorOf[e]

-----------------------------------------------------------------------------
(* State *)

VARIABLES
  state,                 \* WalletState held by useReducer
  storage,               \* localStorage, by key; Null = absent
  wallet,                \* adapter.wallet # null
  windowAptos,           \* window.aptos is injected
  detectTimer,           \* the 100 ms re-detection timer of detectWallet is pending
  agentKeepsCallbacks,   \* the agent keeps every callback it is given (else only the latest)
  listeners,             \* the closures registered with the agent's change events
  calls,                 \* bag of the connect() calls in progress
  disc,                  \* position of the disconnect() call in progress
  reconnectAttempts,     \* reconnectAttempts.current
  last,                  \* what the last step did (history, read by the properties only)
  superseded,            \* every call in progress was in progress when disconnect() was
                         \* last issued (history, read by the properties only)
  tally,                 \* notifications delivered and storage.set calls they made
                         \* (counted in the runs that start connected only)
  retry,                 \* one RetryManager.executeWithRetry call on its own
  probe,                 \* one error handed to shouldRetryError, and the answer
  startup                \* the reconnection started at mount and the AutoRecoveryManager

vars == << state, storage, wallet, windowAptos, agentKeepsCallbacks, detectTimer, listeners,
          calls, disc, reconnectAttempts, last, superseded, tally, retry, probe, startup >>

(* The variables that the wallet's own steps leave alone. *)
aside == << tally, retry, probe, startup >>

NoTally == [notifications |-> 0, accountWrites |-> 0, networkWrites |-> 0]
NoRetry == [pc |-> "idle"]
NoProbe == [pc |-> "idle"]
NoStartup == [pc |-> "idle"]

NoPayload == [address |-> Null, publicKey |-> Null]

(* A connect() call in progress: where it is suspended (pc), the          *)
(* executeWithRetry attempt it is in, what wallet.connect() resolved with. *)
NewCall(kind) == [pc |-> "awaitConnect", kind |-> kind, attempt |-> 1,
                  payload |-> NoPayload]

EmptyStorage == [k \in StorageKeySet |-> Null]

(* What the last step did: "failed" / "succeeded" (a connect call ended), *)
(* "disconnected" / "raised" (disconnect() returned / threw), "none".     *)
Outcomes == {"none", "failed", "succeeded", "disconnected", "raised"}

(* The values of the rendered state a callback closed over. *)
Closure(s) == [isConnected |-> s.isConnected, account |-> s.account, network |-> s.network]

(* adapter.onAccountChange / onNetworkChange hand the agent a callback    *)
(* that closes over the rendered state, unless the adapter holds no       *)
(* wallet. Nothing unsubscribes the callbacks handed over before: whether *)
(* they stay registered is the agent's business (keeps). An earlier       *)
(* callback that closed over isConnected = false can never pass its test  *)
(* and is not tracked further.                                             *)
registerListeners(s, w, ls, keeps) ==
  IF w THEN (IF keeps THEN {l \in ls : l.isConnected} ELSE {}) \cup {Closure(s)}
  ELSE ls

(* The effect with deps [state.isConnected, state.account, state.network] *)
(* runs again after a render that changed one of them. It returns no      *)
(* clean-up function.                                                      *)
listenerEffect(old, new, w, ls) ==
  IF Closure(old) # Closure(new)
  THEN registerListeners(new, w, ls, agentKeepsCallbacks)
  ELSE ls

Init ==
  /\ state = initialState
  /\ storage = EmptyStorage
  /\ windowAptos \in BOOLEAN
  /\ wallet = windowAptos
  /\ detectTimer = ~windowAptos
  /\ agentKeepsCallbacks \in BOOLEAN
  /\ listeners = registerListeners(initialState, wallet, {}, agentKeepsCallbacks)
  /\ calls = EmptyBag
  /\ disc = "idle"
  /\ reconnectAttempts = 0
  /\ last = "none"
  /\ superseded = FALSE
  /\ tally = NoTally
  /\ retry = NoRetry
  /\ probe = NoProbe
  /\ startup = NoStartup

InFlight == BagToSet(calls)
Replace(cr, cr2) == (calls (-) SetToBag({cr})) (+) SetToBag({cr2})
Remove(cr) == calls (-) SetToBag({cr})

-----------------------------------------------------------------------------
(* Environment *)

(* The extension injects window.aptos after the page has started. *)
AgentInjected ==
  /\ ~windowAptos
  /\ windowAptos' = TRUE
  /\ last' = "none"
  /\ UNCHANGED << state, storage, wallet, agentKeepsCallbacks, detectTimer, listeners,
                  calls, disc, reconnectAttempts, superseded >>

(* detectWallet's setTimeout callback: this.wallet = window.aptos || null *)
detectWallet ==
  /\ detectTimer
  /\ detectTimer' = FALSE
  /\ wallet' = windowAptos
  /\ last' = "none"
  /\ UNCHANGED << state, storage, windowAptos, agentKeepsCallbacks, listeners, calls, disc,
                  reconnectAttempts, superseded >>

-----------------------------------------------------------------------------
(* WalletProvider.connect and PetraWalletAdapter.connect *)

(* connect()'s catch block: SET_ERROR with the classified message; the    *)
(* error is rethrown to the caller. rest: the other calls in progress.    *)
connectFailed(s1, e, rest) ==
  /\ state' = walletReducer(s1, "SET_ERROR", handleWalletErrorOf[e])
  /\ listeners' = listenerEffect(state, state', wallet, listeners)
  /\ calls' = rest
  /\ last' = "failed"
  /\ UNCHANGED << storage, reconnectAttempts >>

(* One attempt of the adapter threw raw: its catch block maps the error,  *)
(* executeWithRetry either gives up or waits retryDelay * attempt.         *)
attemptFailed(s1, cr, raw, rest) ==
  LET e == connectCatchOf[raw]
  IN IF executeWithRetry(cr.attempt, ShouldRetry(e)) = "throw"
     THEN connectFailed(s1, e, rest)
     ELSE /\ state' = s1
          /\ listeners' = listenerEffect(state, s1, wallet, listeners)
          /\ calls' = rest (+) SetToBag({[cr EXCEPT !.pc = "delay", !.payload = NoPayload]})
          /\ last' = "none"
          /\ UNCHANGED << storage, reconnectAttempts >>

(* The operation passed to executeWithRetry, up to wallet.connect().      *)
startAttempt(s1, cr, rest) ==
  IF ~wallet
  THEN attemptFailed(s1, cr, WalletNotInstalledError, rest)
  ELSE /\ state' = s1
       /\ listeners' = listenerEffect(state, s1, wallet, listeners)
       /\ calls' = rest (+) SetToBag({[cr EXCEPT !.pc = "awaitConnect", !.payload = NoPayload]})
       /\ last' = "none"
       /\ UNCHANGED << storage, reconnectAttempts >>

(* The UI calls connect(): nothing in it looks at the current state. *)
connect ==
  /\ BagCardinality(calls) < MaxCalls
  /\ LET s1 == walletReducer(walletReducer(state, "SET_CONNECTING", TRUE),
                             "CLEAR_ERROR", Null)
     IN startAttempt(s1, NewCall("user"), calls)
  /\ UNCHANGED << wallet, windowAptos, agentKeepsCallbacks, detectTimer, disc >>
  /\ superseded' = FALSE

(* wallet.connect() resolved first in the race: getNetwork() calls        *)
(* wallet.network().                                                       *)
agentConnectResolved(cr, p) ==
  /\ cr.pc = "awaitConnect"
  /\ calls' = Replace(cr, [cr EXCEPT !.pc = "awaitNetwork", !.payload = p])
  /\ last' = "none"
  /\ UNCHANGED << state, storage, wallet, windowAptos, agentKeepsCallbacks, detectTimer, listeners, disc,
                  reconnectAttempts, superseded >>

agentConnectRejected(cr, e) ==
  /\ cr.pc = "awaitConnect"
  /\ attemptFailed(state, cr, e, Remove(cr))
  /\ UNCHANGED << wallet, windowAptos, agentKeepsCallbacks, detectTimer, disc >>
  /\ superseded' = (superseded /\ calls' # EmptyBag)

(* The CONNECTION_TIMEOUT timer rejected first in the race. *)
connectionTimeout(cr) ==
  /\ cr.pc = "awaitConnect"
  /\ attemptFailed(state, cr, PlainError("Connection timeout"), Remove(cr))
  /\ UNCHANGED << wallet, windowAptos, agentKeepsCallbacks, detectTimer, disc >>
  /\ superseded' = (superseded /\ calls' # EmptyBag)

(* connect()'s success path: SET_CONNECTED, the four storage writes,      *)
(* reconnectAttempts reset.                                                *)
connectSucceeded(r, rest) ==
  /\ state' = walletReducer(state, "SET_CONNECTED",
                            [account |-> r.address, network |-> r.network])
  /\ storage' = [storage EXCEPT ![STORAGE_KEYS.WALLET_CONNECTED] = "true",
                                ![STORAGE_KEYS.LAST_CONNECTED_ACCOUNT] = r.address,
                                ![STORAGE_KEYS.PREFERRED_NETWORK] = r.network,
                                ![STORAGE_KEYS.CONNECTION_TIMESTAMP] = DateNowString]
  /\ reconnectAttempts' = 0
  /\ listeners' = listenerEffect(state, state', wallet, listeners)
  /\ calls' = rest
  /\ last' = "succeeded"

(* getNetwork() returned networkInfo: validate, normalise, return or throw. *)
networkObtained(cr, networkInfo) ==
  LET r == connectResultOf[cr.payload][networkInfo]
  IN IF r.ok
     THEN connectSucceeded(r, Remove(cr))
     ELSE attemptFailed(state, cr, r.error, Remove(cr))

agentNetworkResolved(cr, n) ==
  /\ cr.pc = "awaitNetwork"
  /\ networkObtained(cr, getNetwork(n))
  /\ UNCHANGED << wallet, windowAptos, agentKeepsCallbacks, detectTimer, disc >>
  /\ superseded' = (superseded /\ calls' # EmptyBag)

(* wallet.network() rejected: getNetwork's catch returns 'unknown'. *)
agentNetworkRejected(cr) ==
  /\ cr.pc = "awaitNetwork"
  /\ networkObtained(cr, "unknown")
  /\ UNCHANGED << wallet, windowAptos, agentKeepsCallbacks, detectTimer, disc >>
  /\ superseded' = (superseded /\ calls' # EmptyBag)

(* RetryManager.delay elapsed: the loop runs the operation again. *)
retryDelayElapsed(cr) ==
  /\ cr.pc = "delay"
  /\ startAttempt(state, [cr EXCEPT !.attempt = @ + 1], Remove(cr))
  /\ UNCHANGED << wallet, windowAptos, agentKeepsCallbacks, detectTimer, disc >>
  /\ superseded' = (superseded /\ calls' # EmptyBag)

-----------------------------------------------------------------------------
(* WalletProvider.disconnect and PetraWalletAdapter.disconnect *)

(* PetraWalletAdapter.disconnect: wallet.disconnect() is awaited inside   *)
(* try/catch; a rejection is logged and the promise resolves all the same. *)
adapterDisconnect(agentResult) ==
  CASE agentResult = "rejected" -> "resolved"
    [] OTHER -> "resolved"

(* WalletProvider.disconnect: the catch only warns, so the call returns   *)
(* after the finally block whatever the adapter did.                       *)
disconnectOutcome(adapterResult) ==
  CASE adapterResult = "rejected" -> "disconnected"
    [] OTHER -> "disconnected"

(* disconnect() with its dispatch and clean-up inside the try block       *)
(* instead of finally: skipped when the adapter passes a rejection on.    *)
disconnectFinallyInTry(ls, agentResult) ==
  /\ state' = IF agentResult = "rejected" THEN state
              ELSE walletReducer(state, "SET_DISCONNECTED", Null)
  /\ storage' = IF agentResult = "rejected" THEN storage
                ELSE [storage EXCEPT ![STORAGE_KEYS.WALLET_CONNECTED] = Null,
                                     ![STORAGE_KEYS.LAST_CONNECTED_ACCOUNT] = Null,
                                     ![STORAGE_KEYS.CONNECTION_TIMESTAMP] = Null]
  /\ reconnectAttempts' = 0
  /\ listeners' = listenerEffect(state, state', wallet, ls)
  /\ disc' = "idle"
  /\ last' = disconnectOutcome(adapterDisconnect(agentResult))

(* The finally block of disconnect(). PREFERRED_NETWORK is not removed. *)
disconnectFinally(ls, agentResult) ==
  /\ state' = walletReducer(state, "SET_DISCONNECTED", Null)
  /\ storage' = [storage EXCEPT ![STORAGE_KEYS.WALLET_CONNECTED] = Null,
                                ![STORAGE_KEYS.LAST_CONNECTED_ACCOUNT] = Null,
                                ![STORAGE_KEYS.CONNECTION_TIMESTAMP] = Null]
  /\ reconnectAttempts' = 0
  /\ listeners' = listenerEffect(state, state', wallet, ls)
  /\ disc' = "idle"
  /\ last' = disconnectOutcome(adapterDisconnect(agentResult))

disconnect ==
  /\ disc = "idle"
  /\ calls' = calls
  /\ superseded' = (calls # EmptyBag)
  /\ IF wallet
     THEN /\ disc' = "awaitAgent"
          /\ last' = "none"
          /\ UNCHANGED << state, storage, reconnectAttempts, listeners >>
     ELSE disconnectFinally(listeners, "none")
  /\ UNCHANGED << wallet, windowAptos, agentKeepsCallbacks, detectTimer >>

(* removeEventListeners: the agent drops the registered callback only if  *)
(* it implements the optional removeAllListeners.                          *)
removeEventListeners(ls, hasRemoveAllListeners) ==
  IF hasRemoveAllListeners THEN {} ELSE ls

agentDisconnectResolved(hasRemoveAllListeners) ==
  /\ disc = "awaitAgent"
  /\ disconnectFinally(removeEventListeners(listeners, hasRemoveAllListeners), "resolved")
  /\ UNCHANGED << wallet, windowAptos, agentKeepsCallbacks, detectTimer, calls, superseded >>

(* wallet.disconnect() rejected: logged by the adapter, not rethrown. *)
agentDisconnectRejected ==
  /\ disc = "awaitAgent"
  /\ disconnectFinally(listeners, "rejected")
  /\ UNCHANGED << wallet, windowAptos, agentKeepsCallbacks, detectTimer, calls, superseded >>

clearError ==
  /\ state' = walletReducer(state, "CLEAR_ERROR", Null)
  /\ listeners' = listenerEffect(state, state', wallet, listeners)
  /\ last' = "none"
  /\ UNCHANGED << storage, wallet, windowAptos, agentKeepsCallbacks, detectTimer, calls, disc,
                  reconnectAttempts, superseded >>

-----------------------------------------------------------------------------
(* Change notifications pushed by the agent *)

(* The wrapper of adapter.onAccountChange drops an address that is not   *)
(* valid; the provider's callback acts if the state it closed over was    *)
(* connected to another account. Every registered callback is called.     *)
accountChanged(account) ==
  /\ windowAptos /\ listeners # {}
  /\ IF ~isValidAptosAddressOf[account]
     THEN /\ UNCHANGED << state, storage >>
          /\ last' = "none"
     ELSE IF \E l \in listeners : l.isConnected /\ account # l.account
     THEN /\ state' = walletReducer(state, "SET_ACCOUNT", account)
          /\ storage' = [storage EXCEPT ![STORAGE_KEYS.LAST_CONNECTED_ACCOUNT] = account]
          /\ last' = "none"
     ELSE /\ UNCHANGED << state, storage >>
          /\ last' = "none"
  /\ listeners' = listenerEffect(state, state', wallet, listeners)
  /\ UNCHANGED << wallet, windowAptos, agentKeepsCallbacks, detectTimer, calls, disc,
                  reconnectAttempts, superseded >>

(* The wrapper of adapter.onNetworkChange and the provider's callback. *)
networkChanged(networkInfo) ==
  /\ windowAptos /\ listeners # {}
  /\ LET network == getNetwork(networkInfo)
     IN IF \E l \in listeners : l.isConnected /\ network # l.network
        THEN /\ state' = walletReducer(state, "SET_NETWORK", network)
             /\ storage' = [storage EXCEPT ![STORAGE_KEYS.PREFERRED_NETWORK] = network]
             /\ last' = "none"
        ELSE /\ UNCHANGED << state, storage >>
             /\ last' = "none"
  /\ listeners' = listenerEffect(state, state', wallet, listeners)
  /\ UNCHANGED << wallet, windowAptos, agentKeepsCallbacks, detectTimer, calls, disc,
                  reconnectAttempts, superseded >>

-----------------------------------------------------------------------------

Next ==
  \/ AgentInjected /\ UNCHANGED aside
  \/ detectWallet /\ UNCHANGED aside
  \/ connect /\ UNCHANGED aside
  \/ \E cr \in InFlight : \E p \in AgentPayloads : agentConnectResolved(cr, p) /\ UNCHANGED aside
  \/ \E cr \in InFlight : \E e \in AgentRejections : agentConnectRejected(cr, e) /\ UNCHANGED aside
  \/ \E cr \in InFlight : connectionTimeout(cr) /\ UNCHANGED aside
  \/ \E cr \in InFlight : \E n \in AgentNetworks : agentNetworkResolved(cr, n) /\ UNCHANGED aside
  \/ \E cr \in InFlight : agentNetworkRejected(cr) /\ UNCHANGED aside
  \/ \E cr \in InFlight : retryDelayElapsed(cr) /\ UNCHANGED aside
  \/ disconnect /\ UNCHANGED aside
  \/ \E has \in BOOLEAN : agentDisconnectResolved(has) /\ UNCHANGED aside
  \/ agentDisconnectRejected /\ UNCHANGED aside
  \/ clearError /\ UNCHANGED aside
  \/ \E a \in NotifiedAccounts : accountChanged(a) /\ UNCHANGED aside
  \/ \E n \in NotifiedNetworks : networkChanged(n) /\ UNCHANGED aside

Spec == Init /\ [][Next]_vars

(* Timers fire: the connection time-out of the race, the delay of          *)
(* RetryManager and the re-detection timer are setTimeout callbacks, which *)
(* the event loop runs once they are due. Nothing makes the agent answer.  *)
Timers ==
  /\ WF_vars((\E cr \in InFlight : connectionTimeout(cr)) /\ UNCHANGED aside)
  /\ WF_vars((\E cr \in InFlight : retryDelayElapsed(cr)) /\ UNCHANGED aside)
  /\ WF_vars(detectWallet /\ UNCHANGED aside)

FairSpec == Spec /\ Timers

TypeOK ==
  /\ state.isConnected \in BOOLEAN
  /\ state.isConnecting \in BOOLEAN
  /\ reconnectAttempts \in 0..MAX_RECONNECT_ATTEMPTS
  /\ disc \in {"idle", "awaitAgent"}
  /\ last \in Outcomes
  /\ agentKeepsCallbacks \in BOOLEAN
  /\ superseded \in BOOLEAN
  /\ \A l \in listeners : l.isConnected \in BOOLEAN
  /\ BagCardinality(calls) <= MaxCalls
  /\ \A cr \in InFlight : cr.pc \in {"awaitConnect", "awaitNetwork", "delay"}
-----------------------------------------------------------------------------
(* Change notifications in a connected session, with the storage writes   *)
(* counted                                                                 *)

MaxNotifications == 3  \* notifications delivered in one run

(* The session as connect() leaves it: address "AB12" on chain id "2". *)
ConnectedSession == connectResultOf[[address |-> "AB12", publicKey |-> ValidPublicKey]]["2"]

(* The callbacks that call storage.set when the account is announced:     *)
(* none if the adapter's wrapper drops it, else those whose test passes.  *)
accountWriters(account, ls) ==
  IF ~isValidAptosAddressOf[account] THEN {}
  ELSE {l \in ls : l.isConnected /\ account # l.account}

networkWriters(network, ls) ==
  {l \in ls : l.isConnected /\ network # l.network}

(* Mount with the agent installed, then one successful connect(). *)
InitNotify ==
  /\ agentKeepsCallbacks \in BOOLEAN
  /\ state = walletReducer(initialState, "SET_CONNECTED",
                           [account |-> ConnectedSession.address,
                            network |-> ConnectedSession.network])
  /\ storage = [EmptyStorage EXCEPT ![STORAGE_KEYS.WALLET_CONNECTED] = "true",
                                    ![STORAGE_KEYS.LAST_CONNECTED_ACCOUNT] = ConnectedSession.address,
                                    ![STORAGE_KEYS.PREFERRED_NETWORK] = ConnectedSession.network,
                                    ![STORAGE_KEYS.CONNECTION_TIMESTAMP] = DateNowString]
  /\ windowAptos = TRUE
  /\ wallet = TRUE
  /\ detectTimer = FALSE
  /\ listeners = registerListeners(state, TRUE,
                                   registerListeners(initialState, TRUE, {}, agentKeepsCallbacks),
                                   agentKeepsCallbacks)
  /\ calls = EmptyBag
  /\ disc = "idle"
  /\ reconnectAttempts = 0
  /\ last = "succeeded"
  /\ superseded = FALSE
  /\ tally = NoTally
  /\ retry = NoRetry
  /\ probe = NoProbe
  /\ startup = NoStartup

NotifyAccount(account) ==
  /\ tally.notifications < MaxNotifications
  /\ accountChanged(account)
  /\ tally' = [tally EXCEPT !.notifications = @ + 1,
                            !.accountWrites = @ + Cardinality(accountWriters(account, listeners))]

NotifyNetwork(networkInfo) ==
  /\ tally.notifications < MaxNotifications
  /\ networkChanged(networkInfo)
  /\ tally' = [tally EXCEPT !.notifications = @ + 1,
                            !.networkWrites = @ + Cardinality(networkWriters(getNetwork(networkInfo), listeners))]

NextNotify ==
  \/ \E a \in ManyNotifiedAccounts : NotifyAccount(a) /\ UNCHANGED << retry, probe, startup >>
  \/ \E n \in ManyNotifiedNetworks : NotifyNetwork(n) /\ UNCHANGED << retry, probe, startup >>

SpecNotify == InitNotify /\ [][NextNotify]_vars

-----------------------------------------------------------------------------
(* RetryManager.executeWithRetry on its own: any operation, any policy     *)

MaxRetriesBound == 3  \* largest maxRetries a RetryManager is built with

RetryDelays == {1000, 250}

(* shouldRetry: () => false, the default () => true, or shouldRetryError. *)
RetryPolicies == {"never", "always", "shouldRetryError"}

OperationValues == {"<value>"}

OperationErrors == { PlainError("Connection timeout"),
                     PlainError("network unreachable"),
                     PlainError("User rejected the request") }

shouldRetryOf(policy, error) ==
  CASE policy = "never" -> FALSE
    [] policy = "always" -> TRUE
    [] policy = "shouldRetryError" -> shouldRetryError(error)

Resolved(value) == [ok |-> TRUE, value |-> value, error |-> NoError]
Rejected(error) == [ok |-> FALSE, value |-> Null, error |-> error]

(* new RetryManager(maxRetries, retryDelay), executeWithRetry not yet called. *)
InitRetry ==
  /\ \E max \in 1..MaxRetriesBound : \E ms \in RetryDelays : \E policy \in RetryPolicies :
       retry = [pc |-> "start", maxRetries |-> max, retryDelay |-> ms, shouldRetry |-> policy,
                attempt |-> 0, invocations |-> 0, outcomes |-> << >>, delays |-> << >>,
                lastError |-> NoError, thrown |-> NoError, result |-> Null]
  /\ state = initialState
  /\ storage = EmptyStorage
  /\ windowAptos = FALSE
  /\ wallet = FALSE
  /\ detectTimer = FALSE
  /\ agentKeepsCallbacks = FALSE
  /\ listeners = {}
  /\ calls = EmptyBag
  /\ disc = "idle"
  /\ reconnectAttempts = 0
  /\ last = "none"
  /\ superseded = FALSE
  /\ tally = NoTally
  /\ probe = NoProbe
  /\ startup = NoStartup

(* The loop is entered with attempt = 1 and calls operation() at once. *)
executeWithRetryCalled ==
  /\ retry.pc = "start"
  /\ retry' = [retry EXCEPT !.pc = "operation", !.attempt = 1, !.invocations = 1]

(* return await operation() *)
operationResolved(value) ==
  /\ retry.pc = "operation"
  /\ retry' = [retry EXCEPT !.pc = "returned", !.result = value,
                            !.outcomes = Append(@, Resolved(value))]

(* catch (error): break and throw lastError, or wait for the delay. *)
operationRejected(error) ==
  /\ retry.pc = "operation"
  /\ IF catchOfAttempt(retry.maxRetries, retry.attempt,
                       shouldRetryOf(retry.shouldRetry, error)) = "throw"
     THEN retry' = [retry EXCEPT !.pc = "threw", !.lastError = error, !.thrown = error,
                                 !.outcomes = Append(@, Rejected(error))]
     ELSE retry' = [retry EXCEPT !.pc = "delay", !.lastError = error,
                                 !.outcomes = Append(@, Rejected(error)),
                                 !.delays = Append(@, delayBeforeRetry(retry.retryDelay, retry.attempt))]

(* The delay is over: attempt++ and operation() is called again. *)
delayElapsed ==
  /\ retry.pc = "delay"
  /\ retry' = [retry EXCEPT !.pc = "operation", !.attempt = @ + 1, !.invocations = @ + 1]

walletIdle ==
  UNCHANGED << state, storage, wallet, windowAptos, agentKeepsCallbacks, detectTimer, listeners,
               calls, disc, reconnectAttempts, last, superseded, tally >>

NextRetry ==
  \/ executeWithRetryCalled /\ walletIdle /\ UNCHANGED << probe, startup >>
  \/ \E v \in OperationValues : operationResolved(v) /\ walletIdle /\ UNCHANGED << probe, startup >>
  \/ \E e \in OperationErrors : operationRejected(e) /\ walletIdle /\ UNCHANGED << probe, startup >>
  \/ delayElapsed /\ walletIdle /\ UNCHANGED << probe, startup >>

SpecRetry == InitRetry /\ [][NextRetry]_vars

-----------------------------------------------------------------------------
(* shouldRetryError on its own, over messages built from its key words     *)

(* <<key word, the spelling it has in the message>>; "" is no key word. *)
BlockerSpellings ==
  { <<"", "">>,
    <<"rejected", "rejected">>,           <<"rejected", "REJECTED">>,
    <<"user denied", "user denied">>,     <<"user denied", "User Denied">>,
    <<"not installed", "not installed">>, <<"not installed", "Not Installed">>,
    <<"not found", "not found">>,         <<"not found", "NOT FOUND">>,
    <<"invalid", "invalid">>,             <<"invalid", "Invalid">>,
    <<"malformed", "malformed">>,         <<"malformed", "MALFORMED">> }

RetrySpellings ==
  { <<"", "">>,
    <<"network", "network">>,       <<"network", "Network">>,
    <<"timeout", "timeout">>,       <<"timeout", "TIMEOUT">>,
    <<"connection", "connection">>, <<"connection", "Connection">>,
    <<"temporary", "temporary">>,   <<"temporary", "TEMPORARY">> }

(* The two orders in which a message can carry the words. *)
MessageOf(b, r, blockerFirst) ==
  IF blockerFirst THEN "Request " \o b \o " - " \o r \o " issue"
  ELSE r \o " problem: " \o b

Given(error, b, r) ==
  [pc |-> "given", error |-> error, blocker |-> b, retryWord |-> r, answer |-> FALSE]

ProbedErrors ==
  { Given(PlainError(MessageOf(b[2], r[2], first)), b[1], r[1]) :
      b \in BlockerSpellings, r \in RetrySpellings, first \in BOOLEAN }
  \cup { Given(NoError, "", ""), Given([name |-> "Error", message |-> Null], "", "") }

InitClassify ==
  /\ probe \in ProbedErrors
  /\ state = initialState
  /\ storage = EmptyStorage
  /\ windowAptos = FALSE
  /\ wallet = FALSE
  /\ detectTimer = FALSE
  /\ agentKeepsCallbacks = FALSE
  /\ listeners = {}
  /\ calls = EmptyBag
  /\ disc = "idle"
  /\ reconnectAttempts = 0
  /\ last = "none"
  /\ superseded = FALSE
  /\ tally = NoTally
  /\ retry = NoRetry
  /\ startup = NoStartup

shouldRetryErrorCalled ==
  /\ probe.pc = "given"
  /\ probe' = [probe EXCEPT !.pc = "answered", !.answer = shouldRetryError(probe.error)]
  /\ walletIdle
  /\ UNCHANGED << retry, startup >>

NextClassify == shouldRetryErrorCalled

SpecClassify == InitClassify /\ [][NextClassify]_vars

-----------------------------------------------------------------------------
(* The path of a failure of one attempt: the catch block of the adapter's  *)
(* operation, then shouldRetryError and handleWalletError on what it       *)
(* rethrew                                                                 *)

RejectionWords == {"", "rejected", "User rejected", "REJECTED"}
LockWords == {"", "locked"}
OtherWords == {"", "timeout", "not found", "not installed", "network"}

(* What is thrown inside the try block: what the agent rejected with, the  *)
(* time-out, a missing agent, a failed validation.                         *)
Thrown(error, r, l, o) ==
  [pc |-> "thrown", error |-> error, rejection |-> r, lock |-> l, other |-> o,
   caught |-> NoError, message |-> Null, asked |-> FALSE, retried |-> FALSE]

RawFailures ==
  { Thrown(PlainError(MessageOf(r, IF l = "" THEN o ELSE l \o " " \o o, first)), r, l, o) :
      r \in RejectionWords, l \in LockWords, o \in OtherWords, first \in BOOLEAN }
  \cup { Thrown(WalletNotInstalledError, "", "", "not installed"),
         Thrown(UnknownWalletError("Invalid connection data: Wallet address is required"), "", "", "") }

InitKinds ==
  /\ probe \in RawFailures
  /\ state = initialState
  /\ storage = EmptyStorage
  /\ windowAptos = FALSE
  /\ wallet = FALSE
  /\ detectTimer = FALSE
  /\ agentKeepsCallbacks = FALSE
  /\ listeners = {}
  /\ calls = EmptyBag
  /\ disc = "idle"
  /\ reconnectAttempts = 0
  /\ last = "none"
  /\ superseded = FALSE
  /\ tally = NoTally
  /\ retry = NoRetry
  /\ startup = NoStartup

(* catch (error) of the operation: the error it rethrows. *)
connectCatchCalled ==
  /\ probe.pc = "thrown"
  /\ probe' = [probe EXCEPT !.pc = "caught", !.caught = connectCatch(probe.error)]

(* executeWithRetry asks shouldRetry about the error the operation threw. *)
shouldRetryAsked ==
  /\ probe.pc = "caught"
  /\ ~probe.asked
  /\ probe' = [probe EXCEPT !.asked = TRUE, !.retried = shouldRetryError(probe.caught)]

(* The provider's catch block classifies the error for SET_ERROR. *)
handleWalletErrorCalled ==
  /\ probe.pc = "caught"
  /\ probe.message = Null
  /\ probe' = [probe EXCEPT !.message = handleWalletError(probe.caught)]

NextKinds ==
  \/ connectCatchCalled /\ walletIdle /\ UNCHANGED << retry, startup >>
  \/ shouldRetryAsked /\ walletIdle /\ UNCHANGED << retry, startup >>
  \/ handleWalletErrorCalled /\ walletIdle /\ UNCHANGED << retry, startup >>

SpecKinds == InitKinds /\ [][NextKinds]_vars

-----------------------------------------------------------------------------
(* Recovery strategies (getRecoveryStrategies) and the list the hook       *)
(* useWalletConnection surfaces for the error in the provider's state      *)

PETRA_DOWNLOAD_URL ==
  "https://chrome.google.com/webstore/detail/petra-aptos-wallet/ejjladinnckdgjemekebdpeokbikhfci"

NetworkUnsupportedError ==
  [name |-> "NetworkUnsupportedError", message |-> ERROR_MESSAGES.NETWORK_UNSUPPORTED]

(* A RecoveryStrategy; actionUrl is Null where the source gives none. *)
Strategy(action, title, priority, actionUrl) ==
  [action |-> action, title |-> title, priority |-> priority, actionUrl |-> actionUrl]

(* strategies.sort((a, b) => a.priority - b.priority): a stable sort. *)
RECURSIVE insertByPriority(_, _)
insertByPriority(sorted, s) ==
  IF sorted = << >> THEN << s >>
  ELSE IF Head(sorted).priority <= s.priority
       THEN << Head(sorted) >> \o insertByPriority(Tail(sorted), s)
       ELSE << s >> \o sorted

RECURSIVE sortByPriority(_)
sortByPriority(strategies) ==
  IF strategies = << >> THEN << >>
  ELSE insertByPriority(sortByPriority(SubSeq(strategies, 1, Len(strategies) - 1)),
                        strategies[Len(strategies)])

(* The strategies pushed by the instanceof branches, in the order of the   *)
(* source, and the generic ones when none of them pushed.                  *)
strategiesOfClass(error) ==
  LET byClass ==
        (IF error.name = "WalletNotInstalledError"
         THEN << Strategy("install_wallet", "Install Petra Wallet", 1, PETRA_DOWNLOAD_URL) >>
         ELSE << >>)
        \o (IF error.name = "ConnectionRejectedError"
            THEN << Strategy("retry_connection", "Try Again", 1, Null) >> ELSE << >>)
        \o (IF error.name = "WalletLockedError"
            THEN << Strategy("unlock_wallet", "Unlock Wallet", 1, Null) >> ELSE << >>)
        \o (IF error.name = "NetworkUnsupportedError"
            THEN << Strategy("switch_network", "Switch Network", 1, Null) >> ELSE << >>)
        \o (IF error.name = "UnknownWalletError"
            THEN << Strategy("retry_connection", "Retry Connection", 1, Null),
                    Strategy("refresh_page", "Refresh Page", 2, Null) >>
            ELSE << >>)
  IN IF Len(byClass) = 0
     THEN << Strategy("retry_connection", "Try Again", 2, Null),
             Strategy("refresh_page", "Refresh Page", 3, Null) >>
     ELSE byClass

getRecoveryStrategiesSupportAtOne(error) ==
  sortByPriority(strategiesOfClass(error)
                 \o << Strategy("contact_support", "Contact Support", 1, Null) >>)

getRecoveryStrategies(error) ==
  sortByPriority(strategiesOfClass(error)
                 \o << Strategy("contact_support", "Contact Support", 10, Null) >>)

(* useWalletConnection.getRecoveryOptions: the list for context.error,     *)
(* which is the message in the provider's state.                           *)
getRecoveryOptions(contextError) ==
  IF ~Truthy(contextError) THEN << >>
  ELSE getRecoveryStrategies(PlainError(contextError))

(* The errors a caller can hand over: each class, and plain errors or      *)
(* UnknownWalletError with the messages the adapter and the agent produce. *)
RecoveredErrors ==
  { WalletNotInstalledError, ConnectionRejectedError, WalletLockedError,
    NetworkUnsupportedError }
  \cup { r.error : r \in RawFailures }
  \cup { connectCatch(r.error) : r \in RawFailures }

Handed(error) ==
  [pc |-> "handed", error |-> error, strategies |-> << >>, listed |-> FALSE,
   message |-> Null, surfaced |-> << >>, rendered |-> FALSE]

InitRecovery ==
  /\ probe \in { Handed(e) : e \in RecoveredErrors }
  /\ state = initialState
  /\ storage = EmptyStorage
  /\ windowAptos = FALSE
  /\ wallet = FALSE
  /\ detectTimer = FALSE
  /\ agentKeepsCallbacks = FALSE
  /\ listeners = {}
  /\ calls = EmptyBag
  /\ disc = "idle"
  /\ reconnectAttempts = 0
  /\ last = "none"
  /\ superseded = FALSE
  /\ tally = NoTally
  /\ retry = NoRetry
  /\ startup = NoStartup

(* A caller holding the error object asks for its strategies          *)
(* (ErrorReporter.createUserMessage).                                 *)
getRecoveryStrategiesCalled ==
  /\ ~probe.listed
  /\ probe' = [probe EXCEPT !.listed = TRUE,
                            !.strategies = getRecoveryStrategies(probe.error)]

(* The provider's catch block dispatches SET_ERROR with the message. *)
errorSurfaced ==
  /\ probe.message = Null
  /\ probe' = [probe EXCEPT !.message = handleWalletError(probe.error)]

(* The hook renders: state.recoveryStrategies = getRecoveryOptions(). *)
getRecoveryOptionsCalled ==
  /\ probe.message # Null
  /\ ~probe.rendered
  /\ probe' = [probe EXCEPT !.rendered = TRUE,
                            !.surfaced = getRecoveryOptions(probe.message)]

NextRecovery ==
  \/ getRecoveryStrategiesCalled /\ walletIdle /\ UNCHANGED << retry, startup >>
  \/ errorSurfaced /\ walletIdle /\ UNCHANGED << retry, startup >>
  \/ getRecoveryOptionsCalled /\ walletIdle /\ UNCHANGED << retry, startup >>

SpecRecovery == InitRecovery /\ [][NextRecovery]_vars

-----------------------------------------------------------------------------
(* sanitizeWalletAddress applied to an address and again to its own result *)

(* Addresses with and without the 0x prefix, in either case, with blanks  *)
(* and non-hex text; Null stands for a null or undefined argument.        *)
SanitizedInputs ==
  { p \o b : p \in {"", "0x", "0X", " 0x"},
             b \in {"", "ab12", "AB12", "aB", "0x1f", "0XEF", "xyz", " 7", "0"} }
  \cup {Null}

InitSanitize ==
  /\ probe \in { [pc |-> "given", address |-> a, once |-> Null, twice |-> Null] :
                   a \in SanitizedInputs }
  /\ state = initialState
  /\ storage = EmptyStorage
  /\ windowAptos = FALSE
  /\ wallet = FALSE
  /\ detectTimer = FALSE
  /\ agentKeepsCallbacks = FALSE
  /\ listeners = {}
  /\ calls = EmptyBag
  /\ disc = "idle"
  /\ reconnectAttempts = 0
  /\ last = "none"
  /\ superseded = FALSE
  /\ tally = NoTally
  /\ retry = NoRetry
  /\ startup = NoStartup

sanitizeWalletAddressCalled ==
  /\ probe.pc = "given"
  /\ probe' = [probe EXCEPT !.pc = "sanitized",
                            !.once = sanitizeWalletAddress(probe.address)]

sanitizeWalletAddressCalledAgain ==
  /\ probe.pc = "sanitized"
  /\ probe' = [probe EXCEPT !.pc = "resanitized",
                            !.twice = sanitizeWalletAddress(probe.once)]

NextSanitize ==
  \/ sanitizeWalletAddressCalled /\ walletIdle /\ UNCHANGED << retry, startup >>
  \/ sanitizeWalletAddressCalledAgain /\ walletIdle /\ UNCHANGED << retry, startup >>

SpecSanitize == InitSanitize /\ [][NextSanitize]_vars

-----------------------------------------------------------------------------
(* validateConnectionData applied to connection data whose three fields    *)
(* are each absent, empty, well formed or malformed                        *)

ConnectionDatas ==
  { [address |-> a, publicKey |-> k, network |-> n] :
      a \in {Null, "", "0xab12", "ab12", "0xZZ"},
      k \in {Null, "", ValidPublicKey, "0x" \o ValidPublicKey, "0xab12"},
      n \in {Null, "", "Aptos Testnet", "2", "Solana"} }

InitPayload ==
  /\ probe \in { [pc |-> "given", data |-> d,
                  validation |-> [isValid |-> FALSE, error |-> Null],
                  thrown |-> NoError] : d \in ConnectionDatas }
  /\ state = initialState
  /\ storage = EmptyStorage
  /\ windowAptos = FALSE
  /\ wallet = FALSE
  /\ detectTimer = FALSE
  /\ agentKeepsCallbacks = FALSE
  /\ listeners = {}
  /\ calls = EmptyBag
  /\ disc = "idle"
  /\ reconnectAttempts = 0
  /\ last = "none"
  /\ superseded = FALSE
  /\ tally = NoTally
  /\ retry = NoRetry
  /\ startup = NoStartup

validateConnectionDataCalled ==
  /\ probe.pc = "given"
  /\ probe' = [probe EXCEPT !.pc = "validated",
                            !.validation = validateConnectionData(probe.data)]

(* if (!validation.isValid) throw new UnknownWalletError(...) *)
connectionDataRejected ==
  /\ probe.pc = "validated"
  /\ ~probe.validation.isValid
  /\ probe' = [probe EXCEPT !.pc = "thrown",
                            !.thrown = UnknownWalletError("Invalid connection data: "
                                                          \o probe.validation.error)]

NextPayload ==
  \/ validateConnectionDataCalled /\ walletIdle /\ UNCHANGED << retry, startup >>
  \/ connectionDataRejected /\ walletIdle /\ UNCHANGED << retry, startup >>

SpecPayload == InitPayload /\ [][NextPayload]_vars

-----------------------------------------------------------------------------
(* validateAndNormalizeNetwork for both shapes of its argument             *)

(* An argument: typeof is "string" (value), "object" (chainId and name,    *)
(* Null for an absent property) or "null" (null, whose typeof is object).  *)
StringInput(value) == [typeof |-> "string", value |-> value, chainId |-> Null, name |-> Null]
ObjectInput(chainId, name) ==
  [typeof |-> "object", value |-> Null, chainId |-> chainId, name |-> name]
NullInput == [typeof |-> "null", value |-> Null, chainId |-> Null, name |-> Null]

NetworkFound(i) ==
  [isValid |-> TRUE, network |-> SUPPORTED_NETWORKS[i].name,
   chainId |-> SUPPORTED_NETWORKS[i].chainId, error |-> Null]
NetworkRefused(error) ==
  [isValid |-> FALSE, network |-> Null, chainId |-> Null, error |-> error]

(* The whole function: the string branch is validateAndNormalizeNetwork    *)
(* above; reading a property of null throws inside the try block.          *)
validateAndNormalizeNetworkInput(networkInput) ==
  IF networkInput.typeof = "string"
    THEN validateAndNormalizeNetwork(networkInput.value)
  ELSE IF networkInput.typeof = "null"
    THEN NetworkRefused("Network validation error: Cannot read properties of null")
  ELSE IF Truthy(networkInput.chainId)
    THEN IF getNetworkByChainId(networkInput.chainId) # 0
         THEN NetworkFound(getNetworkByChainId(networkInput.chainId))
         ELSE NetworkRefused("Unsupported chain ID: " \o networkInput.chainId)
  ELSE IF Truthy(networkInput.name)
    THEN IF findNetworkByName(networkInput.name) # 0
         THEN NetworkFound(findNetworkByName(networkInput.name))
         ELSE NetworkRefused("Unsupported network: " \o networkInput.name)
  ELSE NetworkRefused("Network name or chain ID is required")

NetworkInputs ==
  { StringInput(s) : s \in {"", "1", "2", "3", "900", "Aptos Mainnet", "aptos testnet",
                            "APTOS DEVNET", "Mainnet", "mainnet", "Solana", "unknown"} }
  \cup { ObjectInput(c, n) : c \in {Null, "", "1", "2", "3", "900"},
                             n \in {Null, "", "Aptos Mainnet", "aptos devnet", "Solana",
                                    "Mainnet"} }
  \cup { NullInput }

InitNetwork ==
  /\ probe \in { [pc |-> "given", networkInput |-> i, networkValidation |-> NetworkRefused(Null),
                  network |-> Null] : i \in NetworkInputs }
  /\ state = initialState
  /\ storage = EmptyStorage
  /\ windowAptos = FALSE
  /\ wallet = FALSE
  /\ detectTimer = FALSE
  /\ agentKeepsCallbacks = FALSE
  /\ listeners = {}
  /\ calls = EmptyBag
  /\ disc = "idle"
  /\ reconnectAttempts = 0
  /\ last = "none"
  /\ superseded = FALSE
  /\ tally = NoTally
  /\ retry = NoRetry
  /\ startup = NoStartup

validateAndNormalizeNetworkCalled ==
  /\ probe.pc = "given"
  /\ probe' = [probe EXCEPT !.pc = "normalized",
                            !.networkValidation =
                               validateAndNormalizeNetworkInput(probe.networkInput)]

(* The adapter's use of the result for its string argument:                *)
(* network: networkValidation.network || networkInfo                       *)
networkReturned ==
  /\ probe.pc = "normalized"
  /\ probe.networkInput.typeof = "string"
  /\ probe' = [probe EXCEPT !.pc = "returned",
                            !.network = IF Truthy(probe.networkValidation.network)
                                        THEN probe.networkValidation.network
                                        ELSE probe.networkInput.value]

NextNetwork ==
  \/ validateAndNormalizeNetworkCalled /\ walletIdle /\ UNCHANGED << retry, startup >>
  \/ networkReturned /\ walletIdle /\ UNCHANGED << retry, startup >>

SpecNetwork == InitNetwork /\ [][NextNetwork]_vars

-----------------------------------------------------------------------------
(* The reconnection started at mount: the auto-reconnect effect,           *)
(* attemptReconnection and AutoRecoveryManager, with no call from the user *)

maxAutoRetries == 2

(* What adapter.connect() can reject with once the agent is present. *)
ReconnectErrors == (CaughtErrors \cup {WalletLockedError}) \ {WalletNotInstalledError}

(* AutoRecoveryManager.getErrorKey *)
getErrorKey(error) == error.name \o ":" \o error.message

ErrorKeys == {getErrorKey(e) : e \in ReconnectErrors \cup {WalletNotInstalledError}}

shouldAutoRecover(error) ==
  IF error.name \in {"ConnectionRejectedError", "WalletNotInstalledError"} THEN FALSE
  ELSE IF error.name \in {"NetworkUnsupportedError", "UnknownWalletError"} THEN TRUE
  ELSE LET message == toLowerCase(error.message)
       IN \/ includes(message, "network")
          \/ includes(message, "timeout")
          \/ includes(message, "temporary")

(* attemptAutoRecovery letting a key reach one retry more. *)
attemptAutoRecoveryOneMore(attempts, error) ==
  IF attempts > maxAutoRetries THEN FALSE
  ELSE shouldAutoRecover(error)

(* attemptAutoRecovery up to its delay: FALSE is "return false". *)
attemptAutoRecovery(attempts, error) ==
  IF attempts >= maxAutoRetries THEN FALSE
  ELSE shouldAutoRecover(error)

(* The test that makes attemptReconnection return at once. *)
reconnectionExhaustedLate(attempts) == attempts > MAX_RECONNECT_ATTEMPTS

reconnectionExhausted(attempts) == attempts >= MAX_RECONNECT_ATTEMPTS

(* What localStorage can hold at mount: nothing, the flag without an      *)
(* account, an account without the flag, or the four keys of an earlier   *)
(* session.                                                                *)
PersistedStorages ==
  { EmptyStorage,
    [EmptyStorage EXCEPT ![STORAGE_KEYS.WALLET_CONNECTED] = "true"],
    [EmptyStorage EXCEPT ![STORAGE_KEYS.LAST_CONNECTED_ACCOUNT] = ConnectedSession.address,
                         ![STORAGE_KEYS.PREFERRED_NETWORK] = ConnectedSession.network],
    [EmptyStorage EXCEPT ![STORAGE_KEYS.WALLET_CONNECTED] = "true",
                         ![STORAGE_KEYS.LAST_CONNECTED_ACCOUNT] = ConnectedSession.address,
                         ![STORAGE_KEYS.PREFERRED_NETWORK] = ConnectedSession.network,
                         ![STORAGE_KEYS.CONNECTION_TIMESTAMP] = DateNowString] }

(* The test of the auto-reconnect effect without the last account. *)
autoReconnectEffectFlagOnly(autoReconnect, stored) ==
  /\ autoReconnect
  /\ stored[STORAGE_KEYS.WALLET_CONNECTED] = "true"

(* The auto-reconnect effect: TRUE when it sets the timer. *)
autoReconnectEffect(autoReconnect, stored) ==
  /\ autoReconnect
  /\ stored[STORAGE_KEYS.WALLET_CONNECTED] = "true"
  /\ Truthy(stored[STORAGE_KEYS.LAST_CONNECTED_ACCOUNT])

(* The auto-reconnect effect at mount, for either value of the provider's  *)
(* autoReconnect prop: the timer is set if the prop is true, the flag is   *)
(* 'true' and a last account is stored. mounted keeps what the effect read. *)
InitStartup ==
  /\ storage \in PersistedStorages
  /\ \E autoReconnect \in BOOLEAN :
       startup = [pc |-> IF autoReconnectEffect(autoReconnect, storage)
                         THEN "timer" ELSE "off",
                  autoReconnect |-> autoReconnect,
                  mounted |-> storage,
                  recoveryAttempts |-> [k \in ErrorKeys |-> 0],
                  pending |-> << >>,
                  attemptsMade |-> 0,
                  failures |-> << >>,
                  blocked |-> FALSE]
  /\ state = initialState
  /\ windowAptos \in BOOLEAN
  /\ wallet = windowAptos
  /\ detectTimer = ~windowAptos
  /\ agentKeepsCallbacks \in BOOLEAN
  /\ listeners = registerListeners(initialState, wallet, {}, agentKeepsCallbacks)
  /\ calls = EmptyBag
  /\ disc = "idle"
  /\ reconnectAttempts = 0
  /\ last = "none"
  /\ superseded = FALSE
  /\ tally = NoTally
  /\ retry = NoRetry
  /\ probe = NoProbe

(* Every attemptAutoRecovery still awaiting its retryCallback resumes:     *)
(* recoveryAttempts.delete(errorKey), return true, and its                 *)
(* attemptReconnection returns.                                            *)
unwound(recoveryAttempts, pending) ==
  [k \in ErrorKeys |-> IF \E i \in 1..Len(pending) : pending[i] = k THEN 0
                       ELSE recoveryAttempts[k]]

(* adapter.connect() rejected with error in an attemptReconnection that    *)
(* had made the state s1: attemptAutoRecovery, then SET_ERROR or the delay. *)
reconnectionFailed(s1, error, made) ==
  LET key == getErrorKey(error)
      failures == Append(startup.failures, error)
  IN IF attemptAutoRecovery(startup.recoveryAttempts[key], error)
     THEN /\ state' = s1
          /\ startup' = [startup EXCEPT !.pc = "recoveryDelay",
                                        !.recoveryAttempts[key] = @ + 1,
                                        !.pending = Append(@, key),
                                        !.attemptsMade = made,
                                        !.failures = failures]
          /\ last' = "none"
     ELSE /\ state' = walletReducer(s1, "SET_ERROR", handleWalletError(error))
          /\ startup' = [startup EXCEPT !.pc = "done",
                                        !.recoveryAttempts = unwound(@, startup.pending),
                                        !.pending = << >>,
                                        !.attemptsMade = made,
                                        !.failures = failures]
          /\ last' = "failed"

(* attemptReconnection up to its await of adapter.connect(), which         *)
(* rejects at once if the adapter has no agent.                            *)
attemptReconnection ==
  IF reconnectionExhausted(reconnectAttempts)
  THEN /\ startup' = [startup EXCEPT !.pc = "done",
                                     !.recoveryAttempts = unwound(@, startup.pending),
                                     !.pending = << >>,
                                     !.blocked = TRUE]
       /\ last' = "none"
       /\ UNCHANGED << state, listeners, reconnectAttempts >>
  ELSE LET s1 == walletReducer(state, "SET_CONNECTING", TRUE)
       IN /\ reconnectAttempts' = reconnectAttempts + 1
          /\ IF ~wallet
             THEN reconnectionFailed(s1, WalletNotInstalledError, startup.attemptsMade + 1)
             ELSE /\ state' = s1
                  /\ startup' = [startup EXCEPT !.pc = "awaitConnect", !.attemptsMade = @ + 1]
                  /\ last' = "none"
          /\ listeners' = listenerEffect(state, state', wallet, listeners)

(* The setTimeout(AUTO_RECONNECT_DELAY) callback of the effect. *)
reconnectTimerFired ==
  /\ startup.pc = "timer"
  /\ attemptReconnection
  /\ UNCHANGED << storage, wallet, windowAptos, agentKeepsCallbacks, detectTimer, calls, disc,
                  superseded >>

(* The delay of attemptAutoRecovery is over: await retryCallback(). *)
recoveryDelayElapsed ==
  /\ startup.pc = "recoveryDelay"
  /\ attemptReconnection
  /\ UNCHANGED << storage, wallet, windowAptos, agentKeepsCallbacks, detectTimer, calls, disc,
                  superseded >>

(* adapter.connect() resolved: SET_CONNECTED, the four storage writes,     *)
(* reconnectAttempts reset.                                                *)
reconnectResolved(payload, networkInfo) ==
  LET r == connectResultOf[payload][networkInfo]
  IN /\ startup.pc = "awaitConnect"
     /\ r.ok
     /\ connectSucceeded(r, calls)
     /\ startup' = [startup EXCEPT !.pc = "done",
                                   !.recoveryAttempts = unwound(@, startup.pending),
                                   !.pending = << >>]
     /\ UNCHANGED << wallet, windowAptos, agentKeepsCallbacks, detectTimer, disc, superseded >>

reconnectRejected(error) ==
  /\ startup.pc = "awaitConnect"
  /\ reconnectionFailed(state, error, startup.attemptsMade)
  /\ listeners' = listenerEffect(state, state', wallet, listeners)
  /\ UNCHANGED << storage, wallet, windowAptos, agentKeepsCallbacks, detectTimer, calls, disc,
                  reconnectAttempts, superseded >>

NextStartup ==
  \/ AgentInjected /\ UNCHANGED aside
  \/ detectWallet /\ UNCHANGED aside
  \/ reconnectTimerFired /\ UNCHANGED << tally, retry, probe >>
  \/ recoveryDelayElapsed /\ UNCHANGED << tally, retry, probe >>
  \/ \E p \in AgentPayloads : \E n \in NetworkInfos :
       reconnectResolved(p, n) /\ UNCHANGED << tally, retry, probe >>
  \/ \E e \in ReconnectErrors : reconnectRejected(e) /\ UNCHANGED << tally, retry, probe >>

SpecStartup == InitStartup /\ [][NextStartup]_vars

-----------------------------------------------------------------------------
(* AutoRecoveryManager on its own: attemptAutoRecovery called one call     *)
(* after another with a retryCallback that resolves or rejects             *)

recoveryRetryDelay == 2000

(* this.retryDelay * (attempts + 1) *)
recoveryDelay(attempts) == recoveryRetryDelay * (attempts + 1)

(* The errors handed to attemptAutoRecovery: what the provider caught, and *)
(* the plain errors the hook rebuilds from the message in the state.       *)
RecoveryErrors ==
  { WalletNotInstalledError, ConnectionRejectedError, NetworkUnsupportedError,
    UnknownWalletError("Connection failed: Connection timeout"),
    PlainError(ERROR_MESSAGES.CONNECTION_REJECTED),
    PlainError(ERROR_MESSAGES.NETWORK_UNSUPPORTED),
    PlainError(ERROR_MESSAGES.UNKNOWN_ERROR) }

RecoveryKeys == {getErrorKey(e) : e \in RecoveryErrors}

InitAutoRecovery ==
  /\ probe = [pc |-> "idle",
              recoveryAttempts |-> [k \in RecoveryKeys |-> 0],
              error |-> NoError,
              attempts |-> 0,
              waited |-> 0,
              returned |-> Null]
  /\ state = initialState
  /\ storage = EmptyStorage
  /\ windowAptos = FALSE
  /\ wallet = FALSE
  /\ detectTimer = FALSE
  /\ agentKeepsCallbacks = FALSE
  /\ listeners = {}
  /\ calls = EmptyBag
  /\ disc = "idle"
  /\ reconnectAttempts = 0
  /\ last = "none"
  /\ superseded = FALSE
  /\ tally = NoTally
  /\ retry = NoRetry
  /\ startup = NoStartup

(* attemptAutoRecovery(error, retryCallback) up to its delay. attempts     *)
(* keeps the counter it read.                                              *)
attemptAutoRecoveryCalled(error) ==
  LET errorKey == getErrorKey(error)
      attempts == probe.recoveryAttempts[errorKey]
  IN /\ probe.pc = "idle"
     /\ IF attemptAutoRecovery(attempts, error)
        THEN probe' = [probe EXCEPT !.pc = "delay",
                                    !.recoveryAttempts[errorKey] = attempts + 1,
                                    !.error = error,
                                    !.attempts = attempts,
                                    !.waited = recoveryDelay(attempts),
                                    !.returned = Null]
        ELSE probe' = [probe EXCEPT !.error = error,
                                    !.attempts = attempts,
                                    !.waited = 0,
                                    !.returned = "false"]

(* The delay is over: await retryCallback(). *)
autoRecoveryDelayElapsed ==
  /\ probe.pc = "delay"
  /\ probe' = [probe EXCEPT !.pc = "callback"]

(* retryCallback resolved: recoveryAttempts.delete(errorKey), return true. *)
retryCallbackResolved ==
  /\ probe.pc = "callback"
  /\ probe' = [probe EXCEPT !.pc = "idle",
                            !.recoveryAttempts[getErrorKey(probe.error)] = 0,
                            !.returned = "true"]

(* retryCallback rejected: the catch block returns false. *)
retryCallbackRejected ==
  /\ probe.pc = "callback"
  /\ probe' = [probe EXCEPT !.pc = "idle", !.returned = "false"]

(* clearAllRecoveryAttempts, called by the hook's clearError. *)
clearAllRecoveryAttempts ==
  /\ probe.pc = "idle"
  /\ probe' = [probe EXCEPT !.recoveryAttempts = [k \in RecoveryKeys |-> 0]]

NextAutoRecovery ==
  \/ \E e \in RecoveryErrors :
       attemptAutoRecoveryCalled(e) /\ walletIdle /\ UNCHANGED << retry, startup >>
  \/ autoRecoveryDelayElapsed /\ walletIdle /\ UNCHANGED << retry, startup >>
  \/ retryCallbackResolved /\ walletIdle /\ UNCHANGED << retry, startup >>
  \/ retryCallbackRejected /\ walletIdle /\ UNCHANGED << retry, startup >>
  \/ clearAllRecoveryAttempts /\ walletIdle /\ UNCHANGED << retry, startup >>

SpecAutoRecovery == InitAutoRecovery /\ [][NextAutoRecovery]_vars

-----------------------------------------------------------------------------
(* The reconnection started at mount together with connect() calls from    *)
(* the user                                                                *)

MaxUserCalls == 1      \* connect() calls of the user in progress at once

(* connect() called by the user while the provider is mounted. *)
userConnect ==
  /\ BagCardinality(calls) < MaxUserCalls
  /\ connect

(* Mounted with the agent already in the page and an agent that drops    *)
(* the callbacks it is handed.                                            *)
InitMount ==
  /\ InitStartup
  /\ windowAptos
  /\ ~agentKeepsCallbacks

(* What a reconnection is rejected with here: a rejection by the user     *)
(* (no recovery) and the time-out (recovered).                            *)
MountErrors ==
  { ConnectionRejectedError, UnknownWalletError("Connection failed: Connection timeout") }

NextMount ==
  \/ reconnectTimerFired /\ UNCHANGED << tally, retry, probe >>
  \/ recoveryDelayElapsed /\ UNCHANGED << tally, retry, probe >>
  \/ \E p \in AgentPayloads : \E n \in NetworkInfos :
       reconnectResolved(p, n) /\ UNCHANGED << tally, retry, probe >>
  \/ \E e \in MountErrors : reconnectRejected(e) /\ UNCHANGED << tally, retry, probe >>
  \/ userConnect /\ UNCHANGED aside
  \/ \E cr \in InFlight : \E p \in AgentPayloads : agentConnectResolved(cr, p) /\ UNCHANGED aside
  \/ \E cr \in InFlight : \E e \in AgentRejections : agentConnectRejected(cr, e) /\ UNCHANGED aside
  \/ \E cr \in InFlight : connectionTimeout(cr) /\ UNCHANGED aside
  \/ \E cr \in InFlight : \E n \in AgentNetworks : agentNetworkResolved(cr, n) /\ UNCHANGED aside
  \/ \E cr \in InFlight : agentNetworkRejected(cr) /\ UNCHANGED aside
  \/ \E cr \in InFlight : retryDelayElapsed(cr) /\ UNCHANGED aside

SpecMount == InitMount /\ [][NextMount]_vars


-----------------------------------------------------------------------------
(* Properties *)

(* wallet.connect() invocations whose promise is still pending. *)
PendingAgentConnects ==
  BagCardinality([cr \in {x \in InFlight : x.pc = "awaitConnect"} |-> calls[cr]])

(* The step ends a connect call that wallet.connect() answered and whose  *)
(* connection data passed validation.                                      *)
SuccessStep(cr, n) == agentNetworkResolved(cr, n) /\ last' = "succeeded"

(* A step in which executeWithRetry runs the adapter's operation. *)
AttemptStep == connect \/ \E cr \in InFlight : retryDelayElapsed(cr)

(* C1: at most one connect attempt is in flight: there are never two agent
   connect() invocations pending at the same time. *)
C1_AtMostOneAgentConnect == PendingAgentConnects <= 1

(* C2: isConnecting and isConnected are never both true. *)
C2_NotConnectingAndConnected == ~(state.isConnecting /\ state.isConnected)

(* C3: account and network are both present or both absent, and they are
   present only when isConnected is true. *)
C3_AccountNetworkPresence ==
  /\ (state.account = Null) <=> (state.network = Null)
  /\ (state.account # Null \/ state.network # Null) => state.isConnected

(* C4: after disconnect() returns, all four persistence keys are absent and
   the state equals the initial Disconnected value with error absent. *)
C4_DisconnectClearsEverything ==
  last = "disconnected" => (storage = EmptyStorage /\ state = initialState)

(* C5: when a connect attempt that was in flight while disconnect() was
   issued resolves successfully after disconnect() returned, its result is
   discarded: the state stays Disconnected and no session key is written. *)
C5_LateResultDiscarded ==
  [][\A cr \in InFlight : \A n \in AgentNetworks :
       (superseded /\ disc = "idle" /\ SuccessStep(cr, n))
         => (~state'.isConnected /\ storage' = storage)]_vars

(* C6: disconnect() never raises, whether the agent's disconnect resolves
   or rejects, and when it returns the state is the Disconnected value with
   all fields cleared. *)
C6_DisconnectNeverFails ==
  /\ last # "raised"
  /\ last = "disconnected" => state = initialState

C6_Witness ==
  /\ last = "disconnected"
  /\ storage[STORAGE_KEYS.PREFERRED_NETWORK] # Null
  /\ BagCardinality(calls) > 0

(* The registry name a network string resolves to by chain id or by name
   (case-insensitively), Null if it resolves by neither. *)
RegistryNameOf(networkInfo) ==
  IF \E i \in 1..Len(SUPPORTED_NETWORKS) : SUPPORTED_NETWORKS[i].chainId = networkInfo
  THEN (CHOOSE n \in {SUPPORTED_NETWORKS[i] : i \in 1..Len(SUPPORTED_NETWORKS)} :
          n.chainId = networkInfo).name
  ELSE IF \E i \in 1..Len(SUPPORTED_NETWORKS) :
            toLowerCase(SUPPORTED_NETWORKS[i].name) = toLowerCase(networkInfo)
  THEN (CHOOSE n \in {SUPPORTED_NETWORKS[i] : i \in 1..Len(SUPPORTED_NETWORKS)} :
          toLowerCase(n.name) = toLowerCase(networkInfo)).name
  ELSE Null

(* account is raw lower-cased and 0x-prefixed. *)
IsSanitizedFormOf(account, raw) ==
  /\ startsWith(account, "0x")
  /\ toLowerCase(account) = account
  /\ account \in {toLowerCase(raw), "0x" \o toLowerCase(raw)}

(* What C7 says of a successful connect apart from the network value. *)
ConnectedAndPersisted(cr) ==
  /\ state'.isConnected /\ ~state'.isConnecting
  /\ state'.error = Null
  /\ IsSanitizedFormOf(state'.account, cr.payload.address)
  /\ state'.lastConnected # Null
  /\ storage'[STORAGE_KEYS.WALLET_CONNECTED] = "true"
  /\ storage'[STORAGE_KEYS.LAST_CONNECTED_ACCOUNT] = state'.account
  /\ storage'[STORAGE_KEYS.PREFERRED_NETWORK] = state'.network
  /\ storage'[STORAGE_KEYS.CONNECTION_TIMESTAMP] # Null

(* C7 as stated: on a successful agent connect with a valid payload the
   state moves from Connecting to Connected with error cleared, account the
   sanitized agent address, network the registry name the agent's network
   resolves to, lastConnected set and all four session keys written. *)
C7_SuccessSetsRegistryName ==
  [][\A cr \in InFlight : \A n \in AgentNetworks :
       (state.isConnecting /\ SuccessStep(cr, n))
         => (ConnectedAndPersisted(cr) /\ state'.network = RegistryNameOf(getNetwork(n)))]_vars

(* C7 amended: as C7, but network is the registry name only when the
   agent's network string is a registry chain id or registry name; a string
   that is only a registry key (such as "Mainnet") is kept as it is. *)
C7_SuccessSetsNetwork ==
  [][\A cr \in InFlight : \A n \in AgentNetworks :
       (state.isConnecting /\ SuccessStep(cr, n))
         => /\ ConnectedAndPersisted(cr)
            /\ state'.network = IF RegistryNameOf(getNetwork(n)) # Null
                                THEN RegistryNameOf(getNetwork(n)) ELSE getNetwork(n)]_vars

C7_Witness ==
  /\ last = "succeeded"
  /\ state.isConnected /\ ~state.isConnecting
  /\ state.account = "0xab12"
  /\ state.network = "Aptos Testnet"
  /\ storage[STORAGE_KEYS.LAST_CONNECTED_ACCOUNT] = "0xab12"

(* C8: when the agent's connect fails or its payload fails validation, the
   connect() attempt ends in Disconnected-with-Error (isConnected false,
   isConnecting false, account and network absent, error set) and writes
   none of the session keys, from whatever state connect() was called in. *)
C8_FailureEndsDisconnectedWithError ==
  [][last' = "failed"
       => (/\ ~state'.isConnected /\ ~state'.isConnecting
           /\ state'.account = Null /\ state'.network = Null
           /\ state'.error # Null
           /\ storage' = storage)]_vars

(* C9: presence of the agent is checked before every connect attempt: if
   the agent is absent the attempt fails with NotInstalled without invoking
   the agent's connect and without a retry, and if the agent is present
   (even if it was absent at startup) the agent's connect is invoked. *)
C9_PresenceCheckedAtEveryAttempt ==
  [][AttemptStep
       => IF windowAptos
          THEN PendingAgentConnects' = PendingAgentConnects + 1
          ELSE /\ PendingAgentConnects' = PendingAgentConnects
               /\ last' = "failed"
               /\ state'.error = ERROR_MESSAGES.WALLET_NOT_INSTALLED
               /\ BagCardinality(calls') <= BagCardinality(calls)]_vars

(* C10: an account-change or network-change notification delivered while
   the state is not Connected changes no state field and writes no
   persistence key. *)
C10_NotificationIgnoredWhenNotConnected ==
  [][((\E a \in NotifiedAccounts : accountChanged(a)) \/ (\E n \in NotifiedNetworks : networkChanged(n)))
       /\ ~state.isConnected
       => UNCHANGED << state, storage >>]_vars

(* C11: while Connected, each notification of a well-formed account that
   differs from the current one sets account to the notified value and
   rewrites the last-account key exactly once, and changes nothing else; so
   n such notifications in a row update and rewrite n times.
   (Specification SpecNotify.) *)
C11_EachAccountChangeAppliedOnce ==
  [][\A a \in ManyNotifiedAccounts :
       (NotifyAccount(a) /\ state.isConnected /\ isValidAptosAddressOf[a] /\ a # state.account)
         => /\ state' = [state EXCEPT !.account = a]
            /\ storage' = [storage EXCEPT ![STORAGE_KEYS.LAST_CONNECTED_ACCOUNT] = a]
            /\ tally'.accountWrites = tally.accountWrites + 1]_vars

(* C12: clearError() in Disconnected-with-Error clears error and so gives
   Disconnected; in every other state it changes nothing; it never changes
   isConnected, isConnecting, account, network, lastConnected or a
   persistence key. *)
DisconnectedWithError ==
  ~state.isConnected /\ ~state.isConnecting /\ state.error # Null

C12_ClearErrorOnlyLeavesErrorState ==
  [][clearError
       => /\ IF DisconnectedWithError
             THEN state' = [state EXCEPT !.error = Null]
             ELSE state' = state
          /\ storage' = storage]_vars

-----------------------------------------------------------------------------
(* Claims about executeWithRetry (specification SpecRetry) *)

Attempts == 1..Len(retry.outcomes)
Finished == retry.pc \in {"returned", "threw"}

(* C13: with a shouldRetry that always returns false exactly one attempt is
   made whatever maxRetries is; in general the call stops at the first
   attempt whose error shouldRetry rejects and throws that attempt's error. *)
C13_StopsAtRejectedError ==
  retry.pc # "idle" =>
    /\ retry.shouldRetry = "never"
         => (retry.invocations <= 1 /\ (Finished => retry.invocations = 1))
    /\ \A i \in Attempts :
         (~retry.outcomes[i].ok /\ ~shouldRetryOf(retry.shouldRetry, retry.outcomes[i].error))
           => /\ i = Len(retry.outcomes)
              /\ retry.invocations = i
              /\ retry.pc = "threw"
              /\ retry.thrown = retry.outcomes[i].error

C13_Witness ==
  /\ retry.pc = "threw"
  /\ retry.shouldRetry = "never"
  /\ retry.maxRetries = MaxRetriesBound
  /\ retry.invocations = 1

(* C14: with shouldRetry always true, an operation that fails k-1 times and
   then succeeds (k <= maxRetries) is called exactly k times, its value is
   returned, and it is not called again after the success. *)
C14_SucceedsOnAttemptK ==
  (retry.pc # "idle" /\ retry.shouldRetry = "always") =>
    /\ \A i \in Attempts :
         retry.outcomes[i].ok
           => /\ i = Len(retry.outcomes)
              /\ retry.invocations = i
              /\ retry.pc = "returned"
              /\ retry.result = retry.outcomes[i].value
    /\ retry.pc = "threw" => Len(retry.outcomes) = retry.maxRetries

C14_Witness ==
  /\ retry.pc = "returned"
  /\ retry.shouldRetry = "always"
  /\ retry.maxRetries = 3
  /\ retry.invocations = 3
  /\ ~retry.outcomes[1].ok /\ ~retry.outcomes[2].ok

(* C15: the operation is never called more than maxRetries times; when every
   attempt fails with an error that shouldRetry accepts it is called exactly
   maxRetries times and the error of the last attempt is thrown. *)
AllFailedRetryably ==
  \A i \in Attempts : /\ ~retry.outcomes[i].ok
                       /\ shouldRetryOf(retry.shouldRetry, retry.outcomes[i].error)

C15_AtMostMaxRetriesCalls ==
  retry.pc # "idle" =>
    /\ retry.invocations <= retry.maxRetries
    /\ (Finished /\ AllFailedRetryably)
         => /\ retry.pc = "threw"
            /\ retry.invocations = retry.maxRetries
            /\ retry.thrown = retry.outcomes[retry.maxRetries].error

C15_Witness ==
  /\ retry.pc = "threw"
  /\ AllFailedRetryably
  /\ retry.shouldRetry = "shouldRetryError"
  /\ retry.invocations = MaxRetriesBound
  /\ retry.thrown # retry.outcomes[1].error

(* C16: no delay is waited before attempt 1; after failed attempt k that is
   followed by another attempt exactly retryDelay * k is waited; no delay is
   waited after the last failed attempt, whether the attempts ran out or the
   error was not retryable. *)
C16_LinearBackoff ==
  retry.pc # "idle" =>
    /\ \A k \in 1..Len(retry.delays) : retry.delays[k] = retry.retryDelay * k
    /\ retry.pc = "start" => retry.delays = << >>
    /\ retry.pc = "operation" => Len(retry.delays) = retry.attempt - 1
    /\ retry.pc = "delay" => Len(retry.delays) = retry.attempt
    /\ Finished => Len(retry.delays) = Len(retry.outcomes) - 1

C16_Witness ==
  /\ retry.pc = "threw"
  /\ Len(retry.outcomes) = 3
  /\ Len(retry.delays) = 2
  /\ retry.delays[2] = 2 * retry.retryDelay

(* C17: shouldRetryError, on the lower-cased message: a message with one of
   "rejected", "user denied", "not installed", "not found", "invalid",
   "malformed" is not retried, also when it has one of "network", "timeout",
   "connection", "temporary" as well; a message with one of these four and
   none of the six is retried; anything else, a missing error or a missing
   message included, is not retried. (Specification SpecClassify.) *)
C17_RetryClassification ==
  probe.pc = "answered" =>
    probe.answer = (/\ probe.error # NoError
                    /\ probe.error.message # Null
                    /\ probe.blocker = ""
                    /\ probe.retryWord # "")

C17_Witness ==
  /\ probe.pc = "answered"
  /\ probe.blocker = "user denied"
  /\ probe.retryWord = "network"
  /\ probe.error.message # toLowerCase(probe.error.message)
  /\ ~probe.answer

(* C18: when the agent's connect has not resolved at the time-out, the
   attempt fails with the time-out error and that error is retryable: in
   attempts 1 and 2 the call waits and then attempts again, and only the
   time-out of attempt 3 makes connect() fail. (Specification Spec.) *)
TimeoutError == connectCatchOf[PlainError("Connection timeout")]

C18_TimeoutIsRetried ==
  [][\A cr \in InFlight :
       /\ connectionTimeout(cr)
            => /\ ShouldRetry(TimeoutError)
               /\ IF cr.attempt < maxRetries
                  THEN /\ calls' = Replace(cr, [cr EXCEPT !.pc = "delay"])
                       /\ state' = state
                       /\ last' # "failed"
                  ELSE /\ calls' = Remove(cr)
                       /\ last' = "failed"
                       /\ state'.error = handleWalletErrorOf[TimeoutError]
       /\ (retryDelayElapsed(cr) /\ wallet)
            => /\ cr.attempt < maxRetries
               /\ calls' = Replace(cr, [cr EXCEPT !.pc = "awaitConnect", !.attempt = @ + 1])]_vars

C18_Witness ==
  \E cr \in InFlight : cr.pc = "delay" /\ cr.attempt = maxRetries - 1

(* C19: every connect() call eventually completes, also when an agent call
   it made (connect or the network query) never resolves: whenever the state
   is Connecting, isConnecting eventually becomes false.
   (Specification FairSpec.) *)
C19_ConnectingEventuallyEnds ==
  state.isConnecting ~> ~state.isConnecting

(* C20: with no call from the user, the reconnection started at mount makes
   at most MAX_RECONNECT_ATTEMPTS (3) attempts, and an attempt that fails
   with a user rejection or with the agent not installed is the last one.
   (Specification SpecStartup.) *)
C20_ReconnectAttemptsCapped ==
  startup.pc # "idle" =>
    /\ startup.attemptsMade <= MAX_RECONNECT_ATTEMPTS
    /\ \A i \in 1..Len(startup.failures) :
         startup.failures[i].name \in {"ConnectionRejectedError", "WalletNotInstalledError"}
           => (startup.attemptsMade = i /\ startup.pc = "done")

C20_Witness ==
  /\ startup.blocked
  /\ startup.attemptsMade = MAX_RECONNECT_ATTEMPTS
  /\ Len(startup.failures) = MAX_RECONNECT_ATTEMPTS

(* C21: when the reconnection started at mount has stopped without
   reaching Connected, the error has been surfaced: isConnecting is false
   and error is set; the state is not left Connecting with no error,
   whatever errors the attempts failed with. (Specification SpecStartup.) *)
C21_StoppedReconnectionSurfacesError ==
  (startup.pc = "done" /\ ~state.isConnected)
    => (~state.isConnecting /\ state.error # Null)

(* C22: in every reachable state the error field is absent or one of the
   five fixed messages of ERROR_MESSAGES; a raw message of the agent or of
   the validator never appears in it. *)
CanonicalMessages ==
  { ERROR_MESSAGES.WALLET_NOT_INSTALLED, ERROR_MESSAGES.CONNECTION_REJECTED,
    ERROR_MESSAGES.NETWORK_UNSUPPORTED, ERROR_MESSAGES.WALLET_LOCKED,
    ERROR_MESSAGES.UNKNOWN_ERROR }

C22_ErrorIsCanonical ==
  state.error = Null \/ state.error \in CanonicalMessages

C22_Witness ==
  /\ last = "failed"
  /\ state.error = ERROR_MESSAGES.UNKNOWN_ERROR

(* C23: every raw failure gets exactly one error kind, found by substring
   tests on its message taken in the order of the code: a message with
   "rejected" is ConnectionRejected, one with "locked" (and no "rejected")
   is WalletLocked, and one that matches no test is Unknown.
   (Specification SpecKinds.) *)
C23_OneKindPerFailure ==
  (probe.pc = "caught" /\ probe.message # Null /\ probe.error.name = "Error") =>
    /\ probe.message \in CanonicalMessages
    /\ probe.rejection \in {"rejected", "User rejected"}
         => /\ probe.caught = ConnectionRejectedError
            /\ probe.message = ERROR_MESSAGES.CONNECTION_REJECTED
    /\ (probe.rejection \in {"", "REJECTED"} /\ probe.lock = "locked")
         => /\ probe.caught = WalletLockedError
            /\ probe.message = ERROR_MESSAGES.WALLET_LOCKED
    /\ (probe.rejection = "" /\ probe.lock = "" /\ probe.other \in {"", "timeout"})
         => /\ probe.caught = UnknownWalletError("Connection failed: " \o probe.error.message)
            /\ probe.message = ERROR_MESSAGES.UNKNOWN_ERROR

C23_Witness ==
  /\ probe.pc = "caught"
  /\ probe.rejection = "rejected"
  /\ probe.lock = "locked"
  /\ probe.caught = ConnectionRejectedError
  /\ probe.message = ERROR_MESSAGES.CONNECTION_REJECTED

(* C24: the two classifications agree on what is not retried: every error
   that handleWalletError classifies as ConnectionRejected or as
   NotInstalled is one that shouldRetryError does not retry.
   (Specification SpecKinds.) *)
C24_RejectedAndNotInstalledNotRetried ==
  (probe.pc = "caught" /\ probe.message # Null /\ probe.asked) =>
    (probe.message \in {ERROR_MESSAGES.CONNECTION_REJECTED, ERROR_MESSAGES.WALLET_NOT_INSTALLED}
       => probe.retried = FALSE)

C24_Witness ==
  /\ probe.pc = "caught"
  /\ probe.caught.name = "UnknownWalletError"
  /\ probe.other = "not found"
  /\ probe.message = ERROR_MESSAGES.WALLET_NOT_INSTALLED
  /\ probe.asked
  /\ ~probe.retried

(* C25: when connect() has failed because the agent is absent, the state
   holds the not-installed error and the recovery list the hook surfaces
   for it (state.recoveryStrategies) is headed by the install strategy,
   which carries the install URL and has priority 1.
   (Specification Spec.) *)
C25_NotInstalledListHeadedByInstall ==
  (last = "failed" /\ state.error = ERROR_MESSAGES.WALLET_NOT_INSTALLED) =>
    LET list == getRecoveryOptions(state.error)
    IN /\ list # << >>
       /\ Head(list).action = "install_wallet"
       /\ Head(list).actionUrl = PETRA_DOWNLOAD_URL
       /\ Head(list).priority = 1

(* C26: for every error, the recovery list is in ascending order of
   priority and ends with a contact-support entry, the only one in the
   list, whose priority is strictly greater than that of every other
   entry.  (Specification SpecRecovery.) *)
SupportLast(list) ==
  /\ list # << >>
  /\ \A i \in 1..(Len(list) - 1) : list[i].priority <= list[i + 1].priority
  /\ list[Len(list)].action = "contact_support"
  /\ \A i \in 1..(Len(list) - 1) :
        /\ list[i].action # "contact_support"
        /\ list[i].priority < list[Len(list)].priority

C26_ContactSupportLast ==
  /\ probe.listed => SupportLast(probe.strategies)
  /\ probe.rendered => SupportLast(probe.surfaced)

C26_Witness ==
  /\ probe.listed
  /\ probe.error.name = "UnknownWalletError"
  /\ Len(probe.strategies) = 3
  /\ probe.rendered
  /\ Len(probe.surfaced) = 3

(* C27: sanitizeWalletAddress returns a string for every input (a null or
   undefined argument and the empty string included), and applying it to
   its own result gives that result again.
   (Specification SpecSanitize.) *)
C27_SanitizeTotalAndIdempotent ==
  /\ probe.pc # "given" => probe.once # Null
  /\ probe.pc = "resanitized" => probe.twice = probe.once

C27_Witness ==
  /\ probe.pc = "resanitized"
  /\ probe.address = "0XAB12"
  /\ probe.once = "0xab12"
  /\ probe.twice = "0xab12"

(* The checks of C28 in their order, each with the reason it reports; a
   check fails when failed is TRUE. *)
ChecksOf(data) ==
  << [failed |-> data.address \in {Null, ""},
      reason |-> "Wallet address is required"],
     [failed |-> ~isValidAptosAddress(data.address),
      reason |-> "Invalid Aptos wallet address format"],
     [failed |-> data.publicKey \in {Null, ""},
      reason |-> "Public key is required"],
     [failed |-> ~isValidPublicKey(data.publicKey),
      reason |-> "Invalid public key format"],
     [failed |-> data.network \notin {Null, ""} /\ ~isValidNetwork(data.network),
      reason |-> "Unsupported network"] >>

(* C28: validateConnectionData reports the reason of the first failing
   check in the order address presence, address format, public-key
   presence, public-key format, network (checked only when a network is
   supplied), and reports validity when no check fails; a missing address
   gives the address reason whatever the public key and the network are.
   (Specification SpecPayload.) *)
C28_FirstFailingCheckReported ==
  probe.pc # "given" =>
    LET checks == ChecksOf(probe.data)
        failing == {i \in 1..Len(checks) : checks[i].failed}
    IN /\ failing = {} => probe.validation.isValid
       /\ \A i \in failing :
            (\A j \in failing : i <= j) =>
              /\ ~probe.validation.isValid
              /\ probe.validation.error = checks[i].reason
       /\ probe.data.address \in {Null, ""} =>
            probe.validation.error = "Wallet address is required"

C28_Witness ==
  /\ probe.pc = "validated"
  /\ probe.data.address = Null
  /\ probe.data.publicKey = "0xab12"
  /\ probe.data.network = "Solana"
  /\ probe.validation.error = "Wallet address is required"

(* The agent's network string names no registry entry: it is neither a
   chain id, nor a name, nor a key of the registry. *)
NotInRegistry(networkInfo) ==
  /\ RegistryNameOf(networkInfo) = Null
  /\ \A i \in 1..Len(SUPPORTED_NETWORKS) :
        SUPPORTED_NETWORKS[i].key # toLowerCase(networkInfo)

(* The agent's payload passes the address and public-key checks. *)
PayloadValid(payload) ==
  validateConnectionData([address |-> sanitizeWalletAddress(payload.address),
                          publicKey |-> payload.publicKey,
                          network |-> Null]).isValid

(* C29: when the agent's connect has succeeded with a valid payload and
   the network it reports is not in the registry, the connect is accepted:
   the state becomes Connected and the network descriptor is the reported
   value as name, chain id "unknown" and not supported.
   (Specification Spec.) *)
C29_UnregisteredNetworkAccepted ==
  [][\A cr \in InFlight : \A n \in AgentNetworks :
       (/\ state.isConnecting
        /\ PayloadValid(cr.payload)
        /\ NotInRegistry(getNetwork(n))
        /\ agentNetworkResolved(cr, n))
         => /\ state'.isConnected
            /\ useWalletNetworkInfo(state'.network)
                 = [name |-> getNetwork(n), chainId |-> "unknown", isSupported |-> FALSE]]_vars

(* C30: in every reachable state the account, when present, is in
   normalized form: lower-case, 0x followed by 1 to 64 hex digits; this
   holds after a connect and after an account-change notification. *)
C30_AccountNormalized ==
  state.account # Null =>
    /\ startsWith(state.account, "0x")
    /\ Len(state.account) - 2 \in 1..AddressMaxHexDigits
    /\ IsHexString(SubSeq(state.account, 3, Len(state.account)))
    /\ toLowerCase(state.account) = state.account

(* C31: in every rest state (no connect call and no disconnect in
   progress) either all four session keys are present and the state is
   Connected with the last-account key equal to state.account and the
   preferred-network key equal to state.network, or all four keys are
   absent and the state is not Connected.  (Specification Spec.) *)
C31_SessionKeysConsistent ==
  (calls = EmptyBag /\ disc = "idle") =>
    \/ /\ \A k \in StorageKeySet : storage[k] # Null
       /\ state.isConnected
       /\ storage[STORAGE_KEYS.LAST_CONNECTED_ACCOUNT] = state.account
       /\ storage[STORAGE_KEYS.PREFERRED_NETWORK] = state.network
    \/ /\ storage = EmptyStorage
       /\ ~state.isConnected

(* What the auto-reconnect effect found at mount: the prop enabled, the
   connected flag and the last account both stored. *)
ReconnectDue ==
  /\ startup.autoReconnect
  /\ startup.mounted[STORAGE_KEYS.WALLET_CONNECTED] # Null
  /\ startup.mounted[STORAGE_KEYS.LAST_CONNECTED_ACCOUNT] # Null

(* C32: at startup the reconnect path is invoked if and only if the
   connected flag and the last account are both stored and auto-reconnect
   is enabled, and only once the delay has elapsed: while the timer is
   pending no attempt has been made, after it every due reconnection has
   made one, and when a key is absent (or the prop is off) no attempt is
   ever made and the state never becomes Connecting.
   (Specification SpecStartup.) *)
C32_ReconnectIffBothKeys ==
  /\ startup.pc = "timer" => (ReconnectDue /\ startup.attemptsMade = 0 /\ ~state.isConnecting)
  /\ (ReconnectDue /\ startup.pc # "timer") => startup.attemptsMade >= 1
  /\ ~ReconnectDue => /\ startup.pc = "off"
                      /\ startup.attemptsMade = 0
                      /\ reconnectAttempts = 0
                      /\ ~state.isConnecting /\ ~state.isConnected

C32_Witness ==
  /\ ReconnectDue
  /\ startup.pc = "awaitConnect"
  /\ startup.attemptsMade = 1
  /\ state.isConnecting

(* C33: auto-recovery is bounded per error key (class name and message):
   no key's counter exceeds maxAutoRetries, a retry is started only for a
   key whose counter was below it, the wait before the n-th retry for a
   key is retryDelay * n, and an error of class ConnectionRejectedError or
   WalletNotInstalledError is never retried.
   (Specification SpecAutoRecovery.) *)
C33_AutoRecoveryBounded ==
  /\ \A k \in RecoveryKeys : probe.recoveryAttempts[k] <= maxAutoRetries
  /\ probe.pc \in {"delay", "callback"} =>
       /\ probe.attempts < maxAutoRetries
       /\ probe.recoveryAttempts[getErrorKey(probe.error)] = probe.attempts + 1
       /\ probe.waited = recoveryRetryDelay * probe.recoveryAttempts[getErrorKey(probe.error)]
       /\ probe.error.name \notin {"ConnectionRejectedError", "WalletNotInstalledError"}

C33_Witness ==
  /\ probe.pc = "delay"
  /\ probe.attempts = 1
  /\ probe.waited = 4000
  /\ probe.error.name = "UnknownWalletError"

(* The chain id and the name an argument carries. *)
ChainIdOf(networkInput) ==
  IF networkInput.typeof = "string" THEN networkInput.value ELSE networkInput.chainId
NameOf(networkInput) ==
  IF networkInput.typeof = "string" THEN networkInput.value ELSE networkInput.name

(* C34: validateAndNormalizeNetwork resolves by chain id first, then by
   name: it succeeds, with the registry entry's name and chain id, exactly
   when the argument's chain id or, failing that, its name matches a
   registry entry, and it reports a failure with a reason for every
   argument that resolves by neither.  (Specification SpecNetwork.) *)
C34_ChainIdThenName ==
  probe.pc # "given" =>
    LET byId == getNetworkByChainId(ChainIdOf(probe.networkInput))
        byName == findNetworkByName(NameOf(probe.networkInput))
        result == probe.networkValidation
    IN IF byId # 0
         THEN /\ result.isValid
              /\ result.network = SUPPORTED_NETWORKS[byId].name
              /\ result.chainId = SUPPORTED_NETWORKS[byId].chainId
       ELSE IF byName # 0
         THEN /\ result.isValid
              /\ result.network = SUPPORTED_NETWORKS[byName].name
              /\ result.chainId = SUPPORTED_NETWORKS[byName].chainId
       ELSE /\ ~result.isValid
            /\ result.error # Null

(* Retry at priority 1, reload at priority 2, then contact support. *)
RetryReloadSupport(list) ==
  /\ Len(list) = 3
  /\ list[1].action = "retry_connection" /\ list[1].priority = 1
  /\ list[2].action = "refresh_page" /\ list[2].priority = 2
  /\ list[3].action = "contact_support"

(* C35: every error that handleWalletError maps to the Unknown message,
   whether or not it is an UnknownWalletError, gets exactly two generic
   strategies, retry at priority 1 and reload at priority 2, ahead of the
   contact-support entry; this holds of the list made from the error and
   of the list the hook surfaces.  (Specification SpecRecovery.) *)
C35_UnknownGetsRetryAndReload ==
  handleWalletError(probe.error) = ERROR_MESSAGES.UNKNOWN_ERROR =>
    /\ probe.listed => RetryReloadSupport(probe.strategies)
    /\ probe.rendered => RetryReloadSupport(probe.surfaced)

(* A step in which attemptReconnection calls adapter.connect(). *)
ReconnectStep ==
  /\ reconnectTimerFired \/ recoveryDelayElapsed
  /\ startup'.attemptsMade = startup.attemptsMade + 1

(* C36: the reconnection started at mount never calls the adapter's
   connect while a connect() call of the user is in progress or while the
   state is Connected, and connect() is never started by the user while an
   attempt of that reconnection is awaiting the agent.
   (Specification SpecMount.) *)
C36_ReconnectAndConnectExclusive ==
  [][/\ ReconnectStep => (calls = EmptyBag /\ ~state.isConnected)
     /\ userConnect => startup.pc # "awaitConnect"]_vars

(* C37: isConnecting is true exactly while a connect attempt is in
   progress: in every reachable state isConnecting holds if and only if
   some connect() call has been started and has neither succeeded nor
   failed yet.  (Specification Spec.) *)
C37_ConnectingIffAttemptInFlight ==
  state.isConnecting <=> (calls # EmptyBag)

(* A step that ends the chain of reconnections while calls of
   attemptAutoRecovery are awaiting their retryCallback: the callback
   returns and each of them returns true. *)
RecoveryReported ==
  /\ startup.pending # << >>
  /\ startup'.pc = "done"

(* C38: during the reconnection started at mount attemptAutoRecovery
   returns true only if the reconnection it retried reached Connected:
   whenever it returns true the state is Connected, so a retried
   reconnection that failed is not reported as recovered.
   (Specification SpecStartup.) *)
C38_RecoveredMeansConnected ==
  [][RecoveryReported => state'.isConnected]_vars

====
